---- MODULE Spec2Model ----
(***************************************************************************)
(* A model of parts of CIS (Community Intercomparison Suite):              *)
(*                                                                         *)
(*   - GriddedData.set_longitude_range (cis/data_io/gridded_data.py),      *)
(*     which rotates the longitude coordinate, its bounds, the data array  *)
(*     and the auxiliary coordinates of a cube;                            *)
(*   - the other methods of GriddedData and GriddedDataList that build,    *)
(*     change or save such an object;                                      *)
(*   - the date/time and duration parsers of cis/parse_datetime.py.        *)
(*                                                                         *)
(* Arrays are modelled as functions from index tuples to values together   *)
(* with their shape; strings are modelled as sequences of one-character    *)
(* strings.  Longitudes are whole degrees.  Array indices are 1-based in   *)
(* the model; axis numbers, idx1, idx2, lon_idx and shift keep the 0-based *)
(* values they have in the code.                                           *)
(***************************************************************************)
EXTENDS Integers, Sequences, FiniteSets, TLC

VARIABLES
    cube,       \* the GriddedData object (a record, see MakeCube)
    lastCall,   \* the last call: what set_longitude_range saw and computed,
                \* for another method the object before it and its outcome
    calls,      \* number of calls made so far
    dtInput,    \* arguments of the call under consideration (other than
                \* set_longitude_range)
    dtOut       \* outcome of that call

vars == <<cube, lastCall, calls, dtInput, dtOut>>

(***************************************************************************)
(* Bounds of the model.                                                    *)
(***************************************************************************)
MaxLon == 4          \* largest number of longitude points
OtherSize == 2       \* size of the non-longitude data dimension
MaxCalls == 2        \* number of successive calls on a cube or its list

\* Longitude values the points are drawn from, and the windows asked for.
LonValues == {-190, -170, -10, 10, 170, 180, 190, 370, 550}
RangeStarts == {-360, -180, 0, 10, 180, 190, 360}

(***************************************************************************)
(* numpy helpers.                                                          *)
(***************************************************************************)
\* The index tuples of an array of the given shape (1-D or 2-D).
Indices(shape) ==
    IF Len(shape) = 1
    THEN {<<i>> : i \in 1..shape[1]}
    ELSE {<<i, j>> : i \in 1..shape[1], j \in 1..shape[2]}

\* np.roll(a, shift, axis) on an n-dimensional array: result[.., j, ..] is
\* a[.., (j - shift) mod n, ..] along the given 0-based axis.
np_roll(a, shift, axis) ==
    LET ax == axis + 1
        n == a.shape[ax]
    IN [a EXCEPT !.val =
          [idx \in Indices(a.shape) |->
              a.val[[idx EXCEPT ![ax] = ((idx[ax] - 1 - shift) % n) + 1]]]]

\* np.roll(points, shift, 0) on a 1-D sequence (points, or rows of bounds).
np_roll_rows(s, shift) ==
    [j \in 1..Len(s) |-> s[((j - 1 - shift) % Len(s)) + 1]]

\* np.searchsorted(a, v), side='left': the binary search numpy performs.
\* For a sorted array this is the number of elements smaller than v.
RECURSIVE binsearch_left(_, _, _, _)
binsearch_left(a, v, lo, hi) ==
    IF lo >= hi THEN lo
    ELSE LET mid == lo + ((hi - lo) \div 2)
         IN IF a[mid + 1] < v
            THEN binsearch_left(a, v, mid + 1, hi)
            ELSE binsearch_left(a, v, lo, mid)

\* A variant of the search with side='right' (elements equal to v count as
\* smaller), used to test the properties below against a changed search.
RECURSIVE binsearch_right(_, _, _, _)
binsearch_right(a, v, lo, hi) ==
    IF lo >= hi THEN lo
    ELSE LET mid == lo + ((hi - lo) \div 2)
         IN IF a[mid + 1] <= v
            THEN binsearch_right(a, v, mid + 1, hi)
            ELSE binsearch_right(a, v, lo, mid)

np_searchsorted_right(a, v) == binsearch_right(a, v, 0, Len(a))

np_searchsorted(a, v) == binsearch_left(a, v, 0, Len(a))

\* tuple.index(x), 0-based; used only when x is in the tuple.
tuple_index(t, x) == (CHOOSE k \in 1..Len(t) : t[k] = x /\ \A l \in 1..(k - 1) : t[l] # x) - 1

tuple_contains(t, x) == \E k \in 1..Len(t) : t[k] = x

(***************************************************************************)
(* The cube.                                                               *)
(*   shape        shape of the data array                                  *)
(*   hasLon       a coordinate with standard name longitude exists         *)
(*   lonDim       data dimension (0-based) the longitude coordinate is on  *)
(*   dimCoordDims data dimensions of the dimension coordinates, in the     *)
(*                order of cube.dim_coords (sorted by dimension)           *)
(*   points       longitude points                                         *)
(*   hasBounds, bounds   longitude bounds (rows of <<lower, upper>>)       *)
(*   data         the data array; every cell starts labelled by its index  *)
(*   auxDims      list of the dimension tuples of the auxiliary coords     *)
(*   aux          list of the point arrays of the auxiliary coordinates    *)
(*   dimPoints    list of the points of the other dimension coordinates,   *)
(*                in the order of dimCoordDims (empty at longitude)        *)
(*   dimNames     list of the names of the dimension coordinates, in the   *)
(*                order of dimCoordDims                                    *)
(*   hasTime      a coordinate named time exists                           *)
(***************************************************************************)
LabelArray(shape) == [shape |-> shape, val |-> [idx \in Indices(shape) |-> idx]]

SubShape(shape, dims) == [k \in 1..Len(dims) |-> shape[dims[k] + 1]]

\* Contiguous bounds around the points: cell edges at the midpoints.
GuessBounds(p) ==
    LET n == Len(p)
        half(j) == IF n = 1 THEN 45
                   ELSE IF j = 1 THEN (p[2] - p[1]) \div 2
                   ELSE (p[j] - p[j - 1]) \div 2
        edge(j) == IF j = n + 1
                   THEN p[n] + (IF n = 1 THEN 45 ELSE (p[n] - p[n - 1]) \div 2)
                   ELSE p[j] - half(j)
    IN [j \in 1..n |-> <<edge(j), edge(j + 1)>>]

\* Contiguous bounds whose first cell starts at the first point: the inner
\* edges are the midpoints and the last cell ends five degrees past the last
\* point, so the edges span less than the cell centres of guessed bounds do.
NarrowBounds(p) ==
    LET n == Len(p)
        dir == IF n > 1 /\ p[n] < p[1] THEN -1 ELSE 1
        edge(j) == IF j = 0 THEN p[1]
                   ELSE IF j = n THEN p[n] + 5 * dir
                   ELSE (p[j] + p[j + 1]) \div 2
    IN [j \in 1..n |-> <<edge(j - 1), edge(j)>>]

\* boundsKind names the bounds the longitude coordinate is built with:
\* "none", "guess" or "narrow".
MakeCube(shape, hasLon, lonDim, dimCoordDims, points, boundsKind, auxDims) ==
    [shape |-> shape, hasLon |-> hasLon, lonDim |-> lonDim,
     dimCoordDims |-> dimCoordDims, points |-> points,
     hasBounds |-> boundsKind # "none",
     bounds |-> IF boundsKind = "guess" THEN GuessBounds(points)
                ELSE IF boundsKind = "narrow" THEN NarrowBounds(points)
                ELSE <<>>,
     data |-> LabelArray(shape),
     hasTime |-> FALSE,
     auxDims |-> auxDims,
     aux |-> [k \in 1..Len(auxDims) |-> LabelArray(SubShape(shape, auxDims[k]))],
     dimPoints |-> [k \in 1..Len(dimCoordDims) |->
                      IF hasLon /\ dimCoordDims[k] = lonDim THEN <<>>
                      ELSE [j \in 1..shape[dimCoordDims[k] + 1] |-> j]],
     dimNames |-> [k \in 1..Len(dimCoordDims) |->
                     IF hasLon /\ dimCoordDims[k] = lonDim THEN "longitude"
                     ELSE "latitude"]]

\* Strictly monotonic point sequences (iris dimension coordinates).
StrictlyIncreasing(p) == \A j \in 1..(Len(p) - 1) : p[j] < p[j + 1]
StrictlyDecreasing(p) == \A j \in 1..(Len(p) - 1) : p[j] > p[j + 1]

PointArrays ==
    UNION {{p \in [1..n -> LonValues] : StrictlyIncreasing(p) \/ StrictlyDecreasing(p)}
           : n \in 1..MaxLon}

\* The cube layouts considered, for n longitude points.  In "anon_lon" and
\* "lon_anon" the other data dimension has no dimension coordinate.
Layouts(n) ==
    { [shape |-> <<n>>,            lonDim |-> 0, dimCoordDims |-> <<0>>,
       auxDims |-> << <<0>> >>],
      [shape |-> <<OtherSize, n>>, lonDim |-> 1, dimCoordDims |-> <<0, 1>>,
       auxDims |-> << <<1>>, <<0>>, <<0, 1>> >>],
      [shape |-> <<n, OtherSize>>, lonDim |-> 0, dimCoordDims |-> <<0, 1>>,
       auxDims |-> << <<0>>, <<1>>, <<0, 1>> >>],
      [shape |-> <<OtherSize, n>>, lonDim |-> 1, dimCoordDims |-> <<1>>,
       auxDims |-> << <<1>>, <<0>>, <<0, 1>> >>],
      [shape |-> <<n, OtherSize>>, lonDim |-> 0, dimCoordDims |-> <<0>>,
       auxDims |-> << <<0>>, <<1>>, <<0, 1>> >>] }

\* Cubes with a longitude dimension coordinate.
LonCubes ==
    UNION { { MakeCube(l.shape, TRUE, l.lonDim, l.dimCoordDims, p, b, l.auxDims) :
                l \in Layouts(Len(p)), b \in {"none", "guess", "narrow"} }
            : p \in PointArrays }

\* A cube without any longitude coordinate (one dimension coordinate, on
\* data dimension 0, which is not a longitude).
NoLonCube ==
    MakeCube(<<OtherSize, 2>>, FALSE, 0, <<0>>, <<>>, "none", << <<0>>, <<0, 1>> >>)

(***************************************************************************)
(* GriddedData.set_longitude_range(range_start).                           *)
(* The result is the cube after the call together with the values the      *)
(* call computed on the way.  The values written back are the ones the     *)
(* method computes; the dimension coordinate refuses, with ValueError,      *)
(* points or bounds that are not strictly monotonic.                       *)
(***************************************************************************)
\* Lines 213-217 and 229-231: roll the points and move the masked ones by 360.
\* kind is "A" (mask: new < lon_min, +360) or "B" (mask: new >= lon_max, -360).
\* shift_mask_inclusive is a variant with the comparisons <= and >.
shift_mask_inclusive(rolled, kind, limit) ==
    [j \in 1..Len(rolled) |->
        IF kind = "A" THEN rolled[j] <= limit ELSE rolled[j] > limit]

shift_mask(rolled, kind, limit) ==
    [j \in 1..Len(rolled) |->
        IF kind = "A" THEN rolled[j] < limit ELSE rolled[j] >= limit]

\* A variant that rolls the points without moving any of them by 360.
new_lon_points_unmoved(points, shift, kind, limit) == np_roll_rows(points, shift)

new_lon_points_of(points, shift, kind, limit) ==
    LET rolled == np_roll_rows(points, shift)
        mask == shift_mask(rolled, kind, limit)
        delta == IF kind = "A" THEN 360 ELSE -360
    IN [j \in 1..Len(points) |-> IF mask[j] THEN rolled[j] + delta ELSE rolled[j]]

\* Lines 220-225 and 233-235: roll the bounds rows and move both edges of the
\* rows selected by the mask computed from the points.
new_lon_bounds_of(points, bounds, shift, kind, limit) ==
    LET mask == shift_mask(np_roll_rows(points, shift), kind, limit)
        rolled == np_roll_rows(bounds, shift)
        delta == IF kind = "A" THEN 360 ELSE -360
    IN [j \in 1..Len(bounds) |->
          IF mask[j] THEN <<rolled[j][1] + delta, rolled[j][2] + delta>>
          ELSE rolled[j]]

\* Lines 238-246: roll the auxiliary coordinates whose dims contain lon_idx.
roll_aux_coords(c, shift, lon_idx) ==
    [k \in 1..Len(c.aux) |->
        IF tuple_contains(c.auxDims[k], lon_idx)
        THEN np_roll(c.aux[k], shift, tuple_index(c.auxDims[k], lon_idx))
        ELSE c.aux[k]]

\* Line 202: lon_idx = self.dim_coords.index(lon_coord).
lon_idx_of(c) == tuple_index(c.dimCoordDims, c.lonDim)

\* A variant of the upper edge of the window: half a turn instead of a turn.
window_end_half(range_start) == range_start + 180

\* Line 206: range_start + 360.
window_end(range_start) == range_start + 360

\* Line 251: dim_coord.points = new_lon_points is accepted when the new
\* points are strictly monotonic.
points_accepted(points) == StrictlyIncreasing(points) \/ StrictlyDecreasing(points)

\* Line 253: dim_coord.bounds = new_lon_bounds is accepted when the lower
\* edges and the upper edges are each strictly monotonic, in one direction.
bounds_accepted(bounds) ==
    LET lower == [j \in 1..Len(bounds) |-> bounds[j][1]]
        upper == [j \in 1..Len(bounds) |-> bounds[j][2]]
    IN Len(bounds) > 1
       => \/ StrictlyIncreasing(lower) /\ StrictlyIncreasing(upper)
          \/ StrictlyDecreasing(lower) /\ StrictlyDecreasing(upper)

set_longitude_range(c, range_start) ==
    IF ~c.hasLon
    THEN [cube |-> c, idx1 |-> 0, idx2 |-> 0, shift |-> 0, kind |-> "nolon",
          new_lon_points |-> <<>>, new_lon_bounds |-> <<>>,
          outcome |-> "return", exc |-> ""]
    ELSE
    LET lon_idx == lon_idx_of(c)
        roll_bounds == c.hasBounds /\ Len(c.bounds) # 0
        n == Len(c.points)
        idx1 == np_searchsorted(c.points, range_start)
        idx2 == np_searchsorted(c.points, window_end(range_start))
        kind == IF 0 < idx1 /\ idx1 < n THEN "A"
                ELSE IF 0 < idx2 /\ idx2 < n THEN "B"
                ELSE "none"
        shift == IF kind = "A" THEN -idx1
                 ELSE IF kind = "B" THEN n - idx2
                 ELSE 0
        limit == IF kind = "A" THEN c.points[idx1 + 1]
                 ELSE IF kind = "B" THEN c.points[idx2 + 1]
                 ELSE 0
        new_lon_points == IF shift = 0 THEN <<>>
                          ELSE new_lon_points_of(c.points, shift, kind, limit)
        new_lon_bounds == IF shift = 0 \/ ~roll_bounds THEN <<>>
                          ELSE new_lon_bounds_of(c.points, c.bounds, shift, kind, limit)
        rolled == [c EXCEPT !.aux = roll_aux_coords(c, shift, lon_idx),
                            !.data = np_roll(c.data, shift, lon_idx)]
        Returns(obj) == [cube |-> obj, idx1 |-> idx1, idx2 |-> idx2, shift |-> shift,
                         kind |-> kind, new_lon_points |-> new_lon_points,
                         new_lon_bounds |-> new_lon_bounds,
                         outcome |-> "return", exc |-> ""]
        Raises(obj) == [cube |-> obj, idx1 |-> idx1, idx2 |-> idx2, shift |-> shift,
                        kind |-> kind, new_lon_points |-> new_lon_points,
                        new_lon_bounds |-> new_lon_bounds,
                        outcome |-> "raise", exc |-> "ValueError"]
    IN IF shift = 0 THEN Returns(c)
       ELSE IF ~points_accepted(new_lon_points) THEN Raises(rolled)
       ELSE IF ~roll_bounds THEN Returns([rolled EXCEPT !.points = new_lon_points])
       ELSE IF ~bounds_accepted(new_lon_bounds)
       THEN Raises([rolled EXCEPT !.points = new_lon_points])
       ELSE Returns([rolled EXCEPT !.points = new_lon_points,
                                   !.bounds = new_lon_bounds])

(***************************************************************************)
(* The coordinate methods of GriddedDataList: add_aux_coord, remove_coord, *)
(* add_dim_coord and transpose call the method of the same name of         *)
(* iris.cube.Cube on every item of the list.  The operators below give     *)
(* the effect on one item; the result is the item after the call together  *)
(* with the outcome of the call.                                            *)
(***************************************************************************)
\* exc is the exception raised, "" when the call returns.
CoordResult(c, exc) ==
    [cube |-> c, outcome |-> IF exc = "" THEN "return" ELSE "raise", exc |-> exc]

\* cube.dim_coords lists the dimension coordinates by data dimension: the
\* three lists of c put in the order of their dimensions.
sorted_by_dim(c) ==
    LET dims == c.dimCoordDims
        n == Len(dims)
        at(i) == CHOOSE k \in 1..n :
                    Cardinality({l \in 1..n : dims[l] < dims[k]}) = i - 1
    IN [c EXCEPT !.dimCoordDims = [i \in 1..n |-> dims[at(i)]],
                 !.dimNames = [i \in 1..n |-> c.dimNames[at(i)]],
                 !.dimPoints = [i \in 1..n |-> c.dimPoints[at(i)]]]

\* Lines 448-456, var.add_aux_coord(coord, dims): a coordinate the cube does
\* not have yet is added on the data dimensions dims; one it has already is
\* refused with ValueError.
add_aux_coord(c, dims, existing) ==
    IF existing THEN CoordResult(c, "ValueError")
    ELSE CoordResult([c EXCEPT !.auxDims = Append(@, dims),
                                !.aux = Append(@, LabelArray(SubShape(c.shape, dims)))], "")

\* Lines 468-476, var.remove_coord(coord): coord is the name of a coordinate
\* (kind "name") or one of the cube's auxiliary coordinates (kind "aux", the
\* k-th of cube.aux_coords).  A name no coordinate has is a
\* CoordinateNotFoundError.
remove_coord(c, coord) ==
    LET drop(q, k) == [i \in 1..(Len(q) - 1) |-> IF i < k THEN q[i] ELSE q[i + 1]]
    IN IF coord.kind = "aux"
       THEN CoordResult([c EXCEPT !.auxDims = drop(@, coord.k),
                                   !.aux = drop(@, coord.k)], "")
       ELSE IF ~tuple_contains(c.dimNames, coord.name)
       THEN CoordResult(c, "CoordinateNotFoundError")
       ELSE LET k == tuple_index(c.dimNames, coord.name) + 1
                d == [c EXCEPT !.dimCoordDims = drop(@, k),
                               !.dimNames = drop(@, k),
                               !.dimPoints = drop(@, k)]
            IN IF coord.name = "longitude"
               THEN CoordResult([d EXCEPT !.hasLon = FALSE, !.lonDim = 0,
                                           !.points = <<>>, !.hasBounds = FALSE,
                                           !.bounds = <<>>], "")
               ELSE IF coord.name = "time"
               THEN CoordResult([d EXCEPT !.hasTime = FALSE], "")
               ELSE CoordResult(d, "")

\* Lines 478-486, var.add_dim_coord(dim_coord, data_dim): a dimension
\* coordinate called name, with as many points as the dimension is long, is
\* put on data dimension data_dim.  The cube refuses, with ValueError, a
\* coordinate it has already and a dimension that has a dimension coordinate.
add_dim_coord(c, name, data_dim) ==
    IF tuple_contains(c.dimNames, name) \/ tuple_contains(c.dimCoordDims, data_dim)
    THEN CoordResult(c, "ValueError")
    ELSE CoordResult(sorted_by_dim(
           [c EXCEPT !.dimCoordDims = Append(@, data_dim),
                     !.dimNames = Append(@, name),
                     !.dimPoints = Append(@, [j \in 1..c.shape[data_dim + 1] |-> j]),
                     !.hasTime = @ \/ name = "time"]), "")

\* Lines 566-573, data.transpose(new_order): dimension i of the result is
\* dimension new_order[i] of the cube (0-based).  The data array is
\* transposed and the dimensions of every coordinate are renumbered; the
\* points of the coordinates stay as they are.
transpose(c, new_order) ==
    LET n == Len(c.shape)
        dest(d) == (CHOOSE i \in 1..n : new_order[i] = d) - 1
        shape == [i \in 1..n |-> c.shape[new_order[i] + 1]]
        src(idx) == [j \in 1..n |-> idx[dest(j - 1) + 1]]
    IN CoordResult(sorted_by_dim(
         [c EXCEPT !.shape = shape,
                   !.data = [shape |-> shape,
                             val |-> [idx \in Indices(shape) |-> c.data.val[src(idx)]]],
                   !.lonDim = IF c.hasLon THEN dest(@) ELSE @,
                   !.dimCoordDims = [k \in 1..Len(@) |-> dest(@[k])],
                   !.auxDims = [k \in 1..Len(@) |->
                                  [i \in 1..Len(@[k]) |-> dest(@[k][i])]]]), "")

(***************************************************************************)
(* Longitude specification: a cube is built, then set_longitude_range and  *)
(* the coordinate methods of a list holding the cube are called, up to      *)
(* MaxCalls calls in all, with arbitrary windows.                           *)
(***************************************************************************)
NoCall(c) ==
    [called |-> FALSE, range_start |-> 0, idx1 |-> 0, idx2 |-> 0, shift |-> 0,
     kind |-> "none", new_lon_points |-> <<>>, new_lon_bounds |-> <<>>,
     outcome |-> "none", exc |-> "", before |-> c]

NoParse == [fn |-> "none"]

InitLon ==
    /\ cube \in LonCubes \cup {NoLonCube}
    /\ lastCall = NoCall(cube)
    /\ calls = 0
    /\ dtInput = NoParse
    /\ dtOut = NoParse

SetLongitudeRange ==
    /\ calls < MaxCalls
    /\ \E range_start \in RangeStarts :
         \E r \in {set_longitude_range(cube, range_start)} :
            /\ cube' = r.cube
            /\ lastCall' = [called |-> TRUE, range_start |-> range_start,
                            idx1 |-> r.idx1, idx2 |-> r.idx2, shift |-> r.shift,
                            kind |-> r.kind, new_lon_points |-> r.new_lon_points,
                            new_lon_bounds |-> r.new_lon_bounds,
                            outcome |-> r.outcome, exc |-> r.exc,
                            before |-> cube]
    /\ calls' = calls + 1
    /\ UNCHANGED <<dtInput, dtOut>>

\* The coordinate methods are called on a GriddedDataList whose only item is
\* the cube.  MaxAux caps the number of auxiliary coordinates.
MaxAux == 4           \* largest number of auxiliary coordinates

AddAuxCoord ==
    /\ calls < MaxCalls
    /\ Len(cube.auxDims) < MaxAux
    /\ \E existing \in {e \in BOOLEAN : e => Len(cube.auxDims) > 0},
          dims \in {<<d>> : d \in 0..(Len(cube.shape) - 1)}
                     \cup {[i \in 1..Len(cube.shape) |-> i - 1]} :
         \E r \in {add_aux_coord(cube, dims, existing)} :
            /\ cube' = r.cube
            /\ lastCall' = [NoCall(cube) EXCEPT !.outcome = r.outcome, !.exc = r.exc]
    /\ calls' = calls + 1
    /\ UNCHANGED <<dtInput, dtOut>>

RemoveCoord ==
    /\ calls < MaxCalls
    /\ \E coord \in {[kind |-> "name", name |-> name, k |-> 0] :
                       name \in {"longitude", "latitude", "time"}}
                     \cup {[kind |-> "aux", name |-> "", k |-> k] :
                             k \in 1..Len(cube.auxDims)} :
         \E r \in {remove_coord(cube, coord)} :
            /\ cube' = r.cube
            /\ lastCall' = [NoCall(cube) EXCEPT !.outcome = r.outcome, !.exc = r.exc]
    /\ calls' = calls + 1
    /\ UNCHANGED <<dtInput, dtOut>>

AddDimCoord ==
    /\ calls < MaxCalls
    /\ \E name \in {"latitude", "time"}, data_dim \in 0..(Len(cube.shape) - 1) :
         \E r \in {add_dim_coord(cube, name, data_dim)} :
            /\ cube' = r.cube
            /\ lastCall' = [NoCall(cube) EXCEPT !.outcome = r.outcome, !.exc = r.exc]
    /\ calls' = calls + 1
    /\ UNCHANGED <<dtInput, dtOut>>

\* transpose() reverses the dimensions; the other order of at most two
\* dimensions leaves them as they are.
Transpose ==
    /\ calls < MaxCalls
    /\ \E new_order \in {[i \in 1..Len(cube.shape) |-> Len(cube.shape) - i],
                         [i \in 1..Len(cube.shape) |-> i - 1]} :
         \E r \in {transpose(cube, new_order)} :
            /\ cube' = r.cube
            /\ lastCall' = [NoCall(cube) EXCEPT !.outcome = r.outcome, !.exc = r.exc]
    /\ calls' = calls + 1
    /\ UNCHANGED <<dtInput, dtOut>>

NextLon == SetLongitudeRange \/ AddAuxCoord \/ RemoveCoord \/ AddDimCoord \/ Transpose

SpecLon == InitLon /\ [][NextLon]_vars

(***************************************************************************)
(* Properties of set_longitude_range.                                      *)
(***************************************************************************)
InWindow(points, range_start) ==
    \A j \in 1..Len(points) :
        range_start <= points[j] /\ points[j] < range_start + 360

\* The index an element at idx came from when the array is rolled by shift
\* along the (0-based) axis.
RolledFrom(idx, shift, axis, n) ==
    [idx EXCEPT ![axis + 1] = ((idx[axis + 1] - 1 - shift) % n) + 1]

\* C1: after set_longitude_range(range_start) has returned on a cube whose
\* longitude points are increasing, every point p satisfies
\* range_start <= p < range_start + 360.
C1_PointsInWindow ==
    (lastCall.called /\ lastCall.outcome = "return" /\ lastCall.before.hasLon
        /\ StrictlyIncreasing(lastCall.before.points))
    => InWindow(cube.points, lastCall.range_start)

\* C2: when the call rotates (shift # 0), the new point at j is the old point
\* at (j - shift) mod n plus 0, +360 or -360, and the data at longitude index
\* j is the old data at longitude index (j - shift) mod n; for points
\* [-170,-10,10,170] and range_start 0 the points become [10,170,190,350] and
\* the data slices come in the order old 2, 3, 0, 1.
C2_DataFollowsLongitude ==
    (lastCall.called /\ lastCall.shift # 0)
    => LET old == lastCall.before
           n == Len(old.points)
           s == lastCall.shift
       IN /\ \A j \in 1..n :
                cube.points[j] - old.points[((j - 1 - s) % n) + 1] \in {0, 360, -360}
          /\ \A idx \in Indices(cube.shape) :
                cube.data.val[idx] = old.data.val[RolledFrom(idx, s, old.lonDim, n)]
          /\ (old.points = <<-170, -10, 10, 170>> /\ lastCall.range_start = 0)
                => /\ cube.points = <<10, 170, 190, 350>>
                   /\ \A idx \in Indices(cube.shape) :
                        cube.data.val[idx] =
                          old.data.val[[idx EXCEPT ![old.lonDim + 1] =
                                          <<3, 4, 1, 2>>[idx[old.lonDim + 1]]]]

\* C3: if every longitude point already lies in the window, the call leaves
\* points, bounds, data and auxiliary coordinates unchanged (so a second call
\* with the same range_start after a call that brought the points into the
\* window changes nothing).
C3_InRangeIsNoOp ==
    (lastCall.called /\ lastCall.before.hasLon
        /\ InWindow(lastCall.before.points, lastCall.range_start))
    => /\ cube.points = lastCall.before.points
       /\ cube.bounds = lastCall.before.bounds
       /\ cube.data = lastCall.before.data
       /\ cube.aux = lastCall.before.aux

\* Witness of C3: a second call on a cube with several points that an earlier
\* call rotated into the window asked for again.
C3_Witness ==
    /\ calls = 2
    /\ lastCall.called
    /\ Len(lastCall.before.points) >= 3
    /\ lastCall.before.hasBounds
    /\ lastCall.before.points[1] = lastCall.range_start
    /\ lastCall.before.data # LabelArray(lastCall.before.shape)
    /\ InWindow(lastCall.before.points, lastCall.range_start)

\* C4: when the call rotates, the data array is rolled along the data
\* dimension the longitude coordinate is attached to, whatever the layout.
C4_DataRolledAlongLongitudeDim ==
    (lastCall.called /\ lastCall.shift # 0)
    => cube.data = np_roll(lastCall.before.data, lastCall.shift, lastCall.before.lonDim)

(***************************************************************************)
(* Strings and the Python primitives the parsers use.                      *)
(* A string is a sequence of one-character strings.                        *)
(***************************************************************************)
Digits == {"0", "1", "2", "3", "4", "5", "6", "7", "8", "9"}

DigitVal(c) ==
    CASE c = "0" -> 0 [] c = "1" -> 1 [] c = "2" -> 2 [] c = "3" -> 3
      [] c = "4" -> 4 [] c = "5" -> 5 [] c = "6" -> 6 [] c = "7" -> 7
      [] c = "8" -> 8 [] c = "9" -> 9

\* The characters [T :] of both regular expressions.
Separators == {"T", " ", ":"}

UpperLetters == {"A", "B", "C", "D", "E", "F", "G", "H", "I", "J", "K", "L", "M",
                 "N", "O", "P", "Q", "R", "S", "T", "U", "V", "W", "X", "Y", "Z"}

\* str.upper() on one character (the lower-case letters the inputs use).
upper_char(c) ==
    CASE c = "p" -> "P" [] c = "t" -> "T" [] c = "y" -> "Y" [] c = "m" -> "M"
      [] c = "d" -> "D" [] c = "h" -> "H" [] c = "s" -> "S" [] c = "x" -> "X"
      [] c = "o" -> "O" [] c = "n" -> "N" [] c = "e" -> "E"
      [] c = "i" -> "I" [] c = "f" -> "F" [] c = "a" -> "A"
      [] OTHER -> c

str_upper(s) == [k \in 1..Len(s) |-> upper_char(s[k])]

\* Index of the first character of s that is in the set cs, or 0.
FirstIn(s, cs) ==
    IF \E k \in 1..Len(s) : s[k] \in cs
    THEN CHOOSE k \in 1..Len(s) : s[k] \in cs /\ \A l \in 1..(k - 1) : s[l] \notin cs
    ELSE 0

\* str.split(sep) for a one-character separator: the pieces between the
\* occurrences of sep, empty pieces included.
RECURSIVE str_split(_, _)
str_split(s, sep) ==
    LET k == FirstIn(s, {sep})
    IN IF k = 0 THEN <<s>>
       ELSE <<SubSeq(s, 1, k - 1)>> \o str_split(SubSeq(s, k + 1, Len(s)), sep)

\* str.strip() for spaces.
RECURSIVE str_strip(_)
str_strip(s) ==
    IF s = <<>> THEN s
    ELSE IF s[1] = " " THEN str_strip(Tail(s))
    ELSE IF s[Len(s)] = " " THEN str_strip(SubSeq(s, 1, Len(s) - 1))
    ELSE s

RECURSIVE DecimalValue(_)
DecimalValue(ds) ==
    IF ds = <<>> THEN 0
    ELSE 10 * DecimalValue(SubSeq(ds, 1, Len(ds) - 1)) + DigitVal(ds[Len(ds)])

\* int(x) for a string x: surrounding blanks are dropped, one sign is allowed,
\* then at least one digit and nothing else; anything else is a ValueError.
py_int(x) ==
    LET t == str_strip(x)
        signed == t # <<>> /\ t[1] \in {"-", "+"}
        ds == IF signed THEN Tail(t) ELSE t
    IN IF ds # <<>> /\ \A k \in 1..Len(ds) : ds[k] \in Digits
       THEN [ok |-> TRUE,
             val |-> IF signed /\ t[1] = "-" THEN 0 - DecimalValue(ds) ELSE DecimalValue(ds)]
       ELSE [ok |-> FALSE, val |-> 0]

\* [int(x) for x in parts]: the values, or a ValueError at the first bad part.
ints_of(parts) ==
    IF \A k \in 1..Len(parts) : py_int(parts[k]).ok
    THEN [ok |-> TRUE, vals |-> [k \in 1..Len(parts) |-> py_int(parts[k]).val]]
    ELSE [ok |-> FALSE, vals |-> <<>>]

(***************************************************************************)
(* Python values: None or a string.                                        *)
(***************************************************************************)
PyNone == [isNone |-> TRUE, chars |-> <<>>]
PyStr(cs) == [isNone |-> FALSE, chars |-> cs]

NoneWord == <<"N", "o", "n", "e">>

(***************************************************************************)
(* _parse_partial_datetime(dt_string).                                     *)
(* The outcome is "return" with the arguments given to PartialDateTime     *)
(* (value), or "raise" with the exception; nDate and nTime are the numbers *)
(* of date and time components the string was split into.                  *)
(***************************************************************************)
Raised(exc) == [outcome |-> "raise", exc |-> exc, value |-> <<>>, nDate |-> 0, nTime |-> 0]

\* re.match(r'(?P<date>[^T :]+)(?:[T :])(?P<time>.+)$', dt_string): the split
\* is at the first separator, which must have a character before and after it.
\* A variant that splits at the last separator instead of the first.
LastIn(s, cs) ==
    IF \E k \in 1..Len(s) : s[k] \in cs
    THEN CHOOSE k \in 1..Len(s) : s[k] \in cs /\ \A l \in (k + 1)..Len(s) : s[l] \notin cs
    ELSE 0

partial_match_last(s) ==
    LET k == LastIn(s, Separators)
    IN IF k > 1 /\ k < Len(s)
       THEN [matched |-> TRUE, date |-> SubSeq(s, 1, k - 1), time |-> SubSeq(s, k + 1, Len(s))]
       ELSE [matched |-> FALSE, date |-> s, time |-> <<>>]

partial_match(s) ==
    LET k == FirstIn(s, Separators)
    IN IF k > 1 /\ k < Len(s)
       THEN [matched |-> TRUE, date |-> SubSeq(s, 1, k - 1), time |-> SubSeq(s, k + 1, Len(s))]
       ELSE [matched |-> FALSE, date |-> s, time |-> <<>>]

\* A variant with the validity test parenthesised differently:
\* ((nd > 3) or (nt > 3) or (nd < 3)) and (nt > 0).
_parse_partial_datetime_precedence(s) ==
    LET m == partial_match(s)
        time_components == IF m.matched THEN ints_of(str_split(m.time, ":"))
                           ELSE [ok |-> TRUE, vals |-> <<>>]
        date_components == ints_of(str_split(m.date, "-"))
        nd == Len(date_components.vals)
        nt == Len(time_components.vals)
    IN IF ~time_components.ok \/ ~date_components.ok THEN Raised("ValueError")
       ELSE IF (nd > 3 \/ nt > 3 \/ nd < 3) /\ nt > 0 THEN Raised("ValueError")
       ELSE [outcome |-> "return", exc |-> "",
             value |-> date_components.vals \o time_components.vals,
             nDate |-> nd, nTime |-> nt]

_parse_partial_datetime(s) ==
    LET m == partial_match(s)
        time_components == IF m.matched THEN ints_of(str_split(m.time, ":"))
                           ELSE [ok |-> TRUE, vals |-> <<>>]
        date_components == ints_of(str_split(m.date, "-"))
        nd == Len(date_components.vals)
        nt == Len(time_components.vals)
    IN IF ~time_components.ok \/ ~date_components.ok THEN Raised("ValueError")
       ELSE IF nd > 3 \/ nt > 3 \/ (nd < 3 /\ nt > 0) THEN Raised("ValueError")
       ELSE [outcome |-> "return", exc |-> "",
             value |-> date_components.vals \o time_components.vals,
             nDate |-> nd, nTime |-> nt]

(***************************************************************************)
(* parse_partial_datetime(dt_string, name, parser).                        *)
(* errors is the list of messages given to parser.error; parser.error      *)
(* either returns or leaves by raising SystemExit (outcome "exit").        *)
(***************************************************************************)
NotValidText == <<"'", " ", "i", "s", " ", "n", "o", "t", " ", "a", " ",
                  "v", "a", "l", "i", "d", " ">>

error_message(dt_string, name) == <<"'">> \o dt_string \o NotValidText \o name

\* A variant in which the ValueError of the inner parser is not caught.
parse_partial_datetime_uncaught(dt, name, parserReturns) ==
    IF dt.isNone \/ dt.chars = NoneWord
    THEN [outcome |-> "return", isNone |-> TRUE, value |-> <<>>, errors |-> <<>>]
    ELSE LET r == _parse_partial_datetime(dt.chars)
         IN IF r.outcome = "return"
            THEN [outcome |-> "return", isNone |-> FALSE, value |-> r.value, errors |-> <<>>]
            ELSE [outcome |-> "raise", isNone |-> TRUE, value |-> <<>>, errors |-> <<>>]

parse_partial_datetime(dt, name, parserReturns) ==
    IF dt.isNone \/ dt.chars = NoneWord
    THEN [outcome |-> "return", isNone |-> TRUE, value |-> <<>>, errors |-> <<>>]
    ELSE LET r == _parse_partial_datetime(dt.chars)
         IN IF r.outcome = "return"
            THEN [outcome |-> "return", isNone |-> FALSE, value |-> r.value, errors |-> <<>>]
            ELSE [outcome |-> IF parserReturns THEN "return" ELSE "exit",
                  isNone |-> TRUE, value |-> <<>>,
                  errors |-> <<error_message(dt.chars, name)>>]

(***************************************************************************)
(* Inputs of the date/time parser.                                         *)
(***************************************************************************)
MaxComps == 4        \* largest number of date (and of time) components built
MaxStr == 4          \* largest length of the free-form input strings
MaxCount == 50       \* largest number of years, months, ... converted to days

\* Decimal integers as they are written, with the integer each one denotes.
Numerals == { [text |-> <<"2">>, val |-> 2], [text |-> <<"0", "7">>, val |-> 7] }

RECURSIVE JoinTexts(_, _)
JoinTexts(nums, sep) ==
    IF nums = <<>> THEN <<>>
    ELSE IF Len(nums) = 1 THEN nums[1].text
    ELSE nums[1].text \o <<sep>> \o JoinTexts(Tail(nums), sep)

SeqsUpTo(S, lo, hi) == UNION {[1..n -> S] : n \in lo..hi}

\* Strings D1-..-Dk, optionally followed by a separator and T1:..:Tl, kept
\* together with the numerals they were written from.
PartialForms ==
    { [date |-> d, sep |-> "", time |-> <<>>] : d \in SeqsUpTo(Numerals, 1, MaxComps) }
    \cup
    { [date |-> d, sep |-> sp, time |-> t] :
        d \in SeqsUpTo(Numerals, 1, MaxComps), sp \in Separators,
        t \in SeqsUpTo(Numerals, 1, MaxComps) }

FormText(f) ==
    JoinTexts(f.date, "-")
      \o (IF f.time = <<>> THEN <<>> ELSE <<f.sep>> \o JoinTexts(f.time, ":"))

FormValues(f) ==
    [k \in 1..(Len(f.date) + Len(f.time)) |->
        IF k <= Len(f.date) THEN f.date[k].val ELSE f.time[k - Len(f.date)].val]

FreeForm == [date |-> <<>>, sep |-> "", time |-> <<>>]

DtArg(arg, free, form) ==
    [fn |-> "idle", arg |-> arg, free |-> free, form |-> form,
     name |-> <<>>, parserReturns |-> TRUE]

PartialInputs ==
    { DtArg(PyStr(FormText(f)), FALSE, f) : f \in PartialForms }
    \cup { DtArg(PyStr(cs), TRUE, FreeForm) :
             cs \in SeqsUpTo({"1", "-", ":", "T", " ", "X"}, 0, MaxStr) }
    \cup { DtArg(PyStr(NoneWord), TRUE, FreeForm), DtArg(PyNone, TRUE, FreeForm) }

(***************************************************************************)
(* Date/time parser specification: an argument is chosen, then either      *)
(* _parse_partial_datetime or parse_partial_datetime is applied to it.     *)
(***************************************************************************)
\* The parsers do not touch any cube: the cube variables hold an empty one.
IdleCube == MakeCube(<<1>>, FALSE, 0, <<>>, <<>>, "none", <<>>)

InitPartial ==
    /\ cube = IdleCube
    /\ lastCall = NoCall(IdleCube)
    /\ calls = 0
    /\ dtInput \in PartialInputs
    /\ dtOut = NoParse

\* A direct call of _parse_partial_datetime with a string.
CallInnerPartial ==
    /\ dtInput.fn = "idle"
    /\ ~dtInput.arg.isNone
    /\ dtInput' = [dtInput EXCEPT !.fn = "_parse_partial_datetime"]
    /\ dtOut' = _parse_partial_datetime(dtInput.arg.chars)
    /\ UNCHANGED <<cube, lastCall, calls>>

\* A call of parse_partial_datetime from the command line layer.
CallPartial ==
    /\ dtInput.fn = "idle"
    /\ \E name \in { <<"s", "t", "a", "r", "t">>, <<"e", "n", "d">> }, parserReturns \in BOOLEAN :
         /\ dtInput' = [dtInput EXCEPT !.fn = "parse_partial_datetime",
                                       !.name = name,
                                       !.parserReturns = parserReturns]
         /\ dtOut' = parse_partial_datetime(dtInput.arg, name, parserReturns)
    /\ UNCHANGED <<cube, lastCall, calls>>

NextPartial == CallInnerPartial \/ CallPartial

SpecPartial == InitPartial /\ [][NextPartial]_vars

(***************************************************************************)
(* Properties of the date/time parser.                                     *)
(***************************************************************************)
\* The forms Y, Y-M, Y-M-D and Y-M-D<sep>H[:M[:S]].
ValidForm(f) ==
    /\ Len(f.date) <= 3
    /\ Len(f.time) <= 3
    /\ (Len(f.time) > 0 => Len(f.date) = 3)

\* C5: for every string Y-M-D, Y-M-D<sep>H, Y-M-D<sep>H:M, Y-M-D<sep>H:M:S
\* (and Y, Y-M) written from decimal integers, with <sep> one of 'T', space
\* or ':', _parse_partial_datetime returns exactly those integers in the
\* order year, month, day, hour, minute, second, and nothing for the
\* components that were not supplied.
C5_ValidFormsGiveComponents ==
    (dtInput.fn = "_parse_partial_datetime" /\ ~dtInput.free /\ ValidForm(dtInput.form))
    => /\ dtOut.outcome = "return"
       /\ dtOut.value = FormValues(dtInput.form)

\* Witness of C5: a full Y-M-D:H:M:S string with ':' as the date/time
\* separator and a component written with a leading zero was parsed.
C5_Witness ==
    /\ dtInput.fn = "_parse_partial_datetime"
    /\ ~dtInput.free
    /\ Len(dtInput.form.date) = 3
    /\ Len(dtInput.form.time) = 3
    /\ dtInput.form.sep = ":"
    /\ dtInput.form.date[2].text = <<"0", "7">>
    /\ dtOut.outcome = "return"
    /\ Len(dtOut.value) = 6
    /\ dtOut.value[2] = 7

\* The numbers of date and time components of a string, as the parser
\* splits it.
DateCount(s) == Len(str_split(partial_match(s).date, "-"))
TimeCount(s) ==
    IF partial_match(s).matched THEN Len(str_split(partial_match(s).time, ":")) ELSE 0

\* C6: _parse_partial_datetime raises ValueError for every string with a time
\* component and fewer than 3 date components, and for every string with more
\* than 3 date or more than 3 time components; so every value returned has 1
\* to 6 components, filled from the year downward, and no hour without year,
\* month and day.
C6_IncompleteDateRejected ==
    (dtInput.fn = "_parse_partial_datetime")
    => LET s == dtInput.arg.chars
       IN /\ ((TimeCount(s) > 0 /\ DateCount(s) < 3)
                 \/ DateCount(s) > 3 \/ TimeCount(s) > 3)
               => (dtOut.outcome = "raise" /\ dtOut.exc = "ValueError")
          /\ (dtOut.outcome = "return")
               => /\ Len(dtOut.value) \in 1..6
                  /\ Len(dtOut.value) = dtOut.nDate + dtOut.nTime
                  /\ dtOut.nDate \in 1..3
                  /\ dtOut.nTime \in 0..3
                  /\ (dtOut.nTime > 0 => dtOut.nDate = 3)

\* Witness of C6: a string of integers with two date components and one time
\* component was rejected.
C6_Witness ==
    /\ dtInput.fn = "_parse_partial_datetime"
    /\ ~dtInput.free
    /\ Len(dtInput.form.date) = 2
    /\ Len(dtInput.form.time) = 1
    /\ dtOut.outcome = "raise"
    /\ dtOut.exc = "ValueError"

\* The message "'<dt_string>' is not a valid <name>".
ExpectedMessage(s, name) ==
    <<"'">> \o s \o <<"'">> \o <<" ", "i", "s", " ", "n", "o", "t", " ", "a", " ">>
            \o <<"v", "a", "l", "i", "d", " ">> \o name

\* What parse_partial_datetime does with a string the inner parser rejects:
\* one parser.error call with the message, no ValueError, and None returned
\* if parser.error returns.
ReportsRejection ==
    /\ dtOut.errors = <<ExpectedMessage(dtInput.arg.chars, dtInput.name)>>
    /\ dtOut.outcome # "raise"
    /\ dtInput.parserReturns => (dtOut.outcome = "return" /\ dtOut.isNone)

\* What it does with a string the inner parser accepts.
ReturnsParsed ==
    /\ dtOut.outcome = "return"
    /\ ~dtOut.isNone
    /\ dtOut.value = _parse_partial_datetime(dtInput.arg.chars).value
    /\ dtOut.errors = <<>>

\* C7 as stated: for every string that _parse_partial_datetime rejects,
\* parse_partial_datetime calls parser.error exactly once with
\* "'<dt_string>' is not a valid <name>" and returns None if parser.error
\* returns; for every accepted string it returns the parsed value without
\* calling parser.error.
C7_EveryRejectionReported ==
    (dtInput.fn = "parse_partial_datetime" /\ ~dtInput.arg.isNone)
    => IF _parse_partial_datetime(dtInput.arg.chars).outcome = "raise"
       THEN ReportsRejection
       ELSE ReturnsParsed

\* C7 (amended): the same for every rejected string other than 'None'; for
\* the string 'None' (which the inner parser rejects too) None is returned
\* and parser.error is not called.
C7_RejectionReportedExceptNone ==
    (dtInput.fn = "parse_partial_datetime" /\ ~dtInput.arg.isNone)
    => IF dtInput.arg.chars = NoneWord
       THEN /\ _parse_partial_datetime(dtInput.arg.chars).outcome = "raise"
            /\ dtOut.outcome = "return" /\ dtOut.isNone /\ dtOut.errors = <<>>
       ELSE IF _parse_partial_datetime(dtInput.arg.chars).outcome = "raise"
       THEN ReportsRejection
       ELSE ReturnsParsed

\* Witness of C7: a rejected string other than 'None' was reported through a
\* parser.error that returned.
C7_Witness ==
    /\ dtInput.fn = "parse_partial_datetime"
    /\ ~dtInput.arg.isNone
    /\ dtInput.arg.chars # NoneWord
    /\ Len(dtInput.arg.chars) >= 3
    /\ _parse_partial_datetime(dtInput.arg.chars).outcome = "raise"
    /\ dtInput.parserReturns
    /\ Len(dtOut.errors) = 1
    /\ dtOut.outcome = "return"
    /\ dtOut.isNone

(***************************************************************************)
(* _parse_datetime_delta(dt_string).                                       *)
(***************************************************************************)
\* re.match(r'(?:[P])(?P<date>[^T :]+)?(?:[T :])?(?P<time>.+)?$', dt_string):
\* after the leading P the date half runs up to the first separator and the
\* time half is everything after that separator; either half may be empty.
delta_match(s) ==
    IF s = <<>> \/ s[1] # "P"
    THEN [matched |-> FALSE, date |-> <<>>, time |-> <<>>]
    ELSE LET rest == Tail(s)
             k == FirstIn(rest, Separators)
         IN IF k = 0
            THEN [matched |-> TRUE, date |-> rest, time |-> <<>>]
            ELSE [matched |-> TRUE, date |-> SubSeq(rest, 1, k - 1),
                  time |-> SubSeq(rest, k + 1, Len(rest))]

\* Number of digits s starts with.
RECURSIVE LeadingDigits(_)
LeadingDigits(s) ==
    IF s # <<>> /\ s[1] \in Digits THEN 1 + LeadingDigits(Tail(s)) ELSE 0

\* re.findall('[0-9]*[A-Z]', s): every upper-case letter together with the
\* digits right before it.
RECURSIVE re_findall_tokens(_)
re_findall_tokens(s) ==
    IF s = <<>> THEN <<>>
    ELSE LET nd == LeadingDigits(s)
         IN IF nd < Len(s) /\ s[nd + 1] \in UpperLetters
            THEN <<[digits |-> SubSeq(s, 1, nd), letter |-> s[nd + 1]]>>
                    \o re_findall_tokens(SubSeq(s, nd + 2, Len(s)))
            ELSE re_findall_tokens(Tail(s))

\* The position in [years, months, days, hours, minutes, seconds] a unit
\* letter of the date half (lines 137-142) or of the time half (lines
\* 148-153) assigns to; 0 for the else branch, which raises ValueError.
\* date_field_shared and time_field_month are variants: one table shared by
\* both halves, and minutes stored in months.
date_field_shared(letter) ==
    CASE letter = "Y" -> 1 [] letter = "M" -> 2 [] letter = "D" -> 3
      [] letter = "H" -> 4 [] letter = "S" -> 6 [] OTHER -> 0

date_field(letter) ==
    CASE letter = "Y" -> 1 [] letter = "M" -> 2 [] letter = "D" -> 3 [] OTHER -> 0

time_field_month(letter) ==
    CASE letter = "H" -> 4 [] letter = "M" -> 2 [] letter = "S" -> 6 [] OTHER -> 0

time_field(letter) ==
    CASE letter = "H" -> 4 [] letter = "M" -> 5 [] letter = "S" -> 6 [] OTHER -> 0

\* A variant of the token loops in which a unit that occurs again is added to
\* the value its field already has.
RECURSIVE apply_tokens_sum(_, _, _)
apply_tokens_sum(tokens, half, times) ==
    IF tokens = <<>> THEN [ok |-> TRUE, times |-> times]
    ELSE LET token == Head(tokens)
             val == py_int(token.digits)
             f == IF half = "date" THEN date_field(token.letter)
                  ELSE time_field(token.letter)
         IN IF ~val.ok \/ f = 0 THEN [ok |-> FALSE, times |-> times]
            ELSE apply_tokens_sum(Tail(tokens), half,
                                  [times EXCEPT ![f] = times[f] + val.val])

\* The two token loops (lines 135-155): each token overwrites its field.
RECURSIVE apply_tokens(_, _, _)
apply_tokens(tokens, half, times) ==
    IF tokens = <<>> THEN [ok |-> TRUE, times |-> times]
    ELSE LET token == Head(tokens)
             val == py_int(token.digits)
             f == IF half = "date" THEN date_field(token.letter)
                  ELSE time_field(token.letter)
         IN IF ~val.ok \/ f = 0 THEN [ok |-> FALSE, times |-> times]
            ELSE apply_tokens(Tail(tokens), half, [times EXCEPT ![f] = val.val])

\* date_delta_creator(*times).
date_delta_creator(times) ==
    [year |-> times[1], month |-> times[2], day |-> times[3],
     hour |-> times[4], minute |-> times[5], second |-> times[6]]

ZeroDelta == date_delta_creator(<<0, 0, 0, 0, 0, 0>>)

DeltaRaised(exc) == [outcome |-> "raise", exc |-> exc, value |-> ZeroDelta, days |-> <<0, 1>>]

_parse_datetime_delta(dt_string) ==
    LET s == str_upper(dt_string)
        m == delta_match(s)
        afterDate == apply_tokens(re_findall_tokens(m.date), "date", <<0, 0, 0, 0, 0, 0>>)
        afterTime == apply_tokens(re_findall_tokens(m.time), "time", afterDate.times)
    IN IF ~m.matched THEN DeltaRaised("ValueError")
       ELSE IF ~afterDate.ok THEN DeltaRaised("ValueError")
       ELSE IF ~afterTime.ok THEN DeltaRaised("ValueError")
       ELSE [outcome |-> "return", exc |-> "",
             value |-> date_delta_creator(afterTime.times), days |-> <<0, 1>>]

(***************************************************************************)
(* _datetime_delta_to_float_days(delta).                                   *)
(* Fractions are pairs <<numerator, denominator>> in lowest terms.         *)
(* 365.2425 is 146097/400, so days = day + month*365.2425/12 + year*365.2425*)
(* is a multiple of 1/4800 day, that is of 18 seconds: the timedelta holds *)
(* a whole number of seconds and its rounding to microseconds changes      *)
(* nothing.                                                                *)
(***************************************************************************)
RECURSIVE GCD(_, _)
GCD(a, b) == IF b = 0 THEN a ELSE GCD(b, a % b)

Frac(n, d) == LET g == GCD(n, d) IN <<n \div g, d \div g>>

YearDaysNum == 146097     \* 365.2425 = YearDaysNum / YearDaysDen
YearDaysDen == 400

\* A variant with 365-day years and 30-day months.
days_4800ths_flat(delta) ==
    delta.day * (12 * YearDaysDen)
      + delta.month * (30 * YearDaysDen)
      + delta.year * (365 * YearDaysDen * 12)

\* Line 172, in units of 1/(12*400) day.
days_4800ths(delta) ==
    delta.day * (12 * YearDaysDen)
      + delta.month * YearDaysNum
      + delta.year * (YearDaysNum * 12)

\* timedelta(days=days, hours=.., minutes=.., seconds=..).total_seconds().
total_seconds(delta) ==
    days_4800ths(delta) * ((24 * 60 * 60) \div (12 * YearDaysDen))
      + delta.hour * 3600 + delta.minute * 60 + delta.second

\* total_seconds * sec, with sec = 1.0/(24.0*60.0*60.0).
_datetime_delta_to_float_days(delta) == Frac(total_seconds(delta), 24 * 60 * 60)

parse_datetimestr_delta_to_float_days(string) ==
    LET date_delta == _parse_datetime_delta(string)
    IN IF date_delta.outcome = "raise" THEN date_delta
       ELSE [date_delta EXCEPT !.days = _datetime_delta_to_float_days(date_delta.value)]

(***************************************************************************)
(* Inputs of the duration parser.                                          *)
(***************************************************************************)
\* The integers written in duration strings; Absent marks a unit left out.
DeltaNumerals ==
    { [text |-> <<"0">>, val |-> 0], [text |-> <<"1">>, val |-> 1],
      [text |-> <<"0", "3">>, val |-> 3] }

Absent == [text |-> <<>>, val |-> 0]

UnitText(num, letter) == IF num = Absent THEN <<>> ELSE num.text \o <<letter>>

\* Strings P[aY][bM][cD][<sep>[dH][eM][fS]], in upper or in lower case, kept
\* together with the numerals they were written from.  Without a separator
\* there are no time units.
DeltaUnits == DeltaNumerals \cup {Absent}

DeltaForm(lw, sp, y, mo, d, h, mi, sc) ==
    [lower |-> lw, sep |-> sp, year |-> y, month |-> mo, day |-> d,
     hour |-> h, minute |-> mi, second |-> sc]

lower_char(c) ==
    CASE c = "P" -> "p" [] c = "T" -> "t" [] c = "Y" -> "y" [] c = "M" -> "m"
      [] c = "D" -> "d" [] c = "H" -> "h" [] c = "S" -> "s"
      [] OTHER -> c

DeltaFormText(f) ==
    LET up == <<"P">> \o UnitText(f.year, "Y") \o UnitText(f.month, "M")
                \o UnitText(f.day, "D")
                \o (IF f.sep = "" THEN <<>> ELSE <<f.sep>>)
                \o UnitText(f.hour, "H") \o UnitText(f.minute, "M")
                \o UnitText(f.second, "S")
    IN IF f.lower THEN [k \in 1..Len(up) |-> lower_char(up[k])] ELSE up

DeltaFormValue(f) ==
    [year |-> f.year.val, month |-> f.month.val, day |-> f.day.val,
     hour |-> f.hour.val, minute |-> f.minute.val, second |-> f.second.val]

FreeDeltaForm ==
    [lower |-> FALSE, sep |-> "", year |-> Absent, month |-> Absent, day |-> Absent,
     hour |-> Absent, minute |-> Absent, second |-> Absent]

\* Strings in which one unit letter occurs several times in the same half:
\* P<n1>U<n2>U.. for the date half, P<sep><n1>U<n2>U.. for the time half,
\* kept together with the numerals they were written from.
MaxDup == 3          \* largest number of tokens with the same unit letter

DupNumerals ==
    { [text |-> <<"1">>, val |-> 1], [text |-> <<"2">>, val |-> 2],
      [text |-> <<"3">>, val |-> 3], [text |-> <<"7">>, val |-> 7] }

NoDup == [half |-> "", sep |-> "", letter |-> "", nums |-> <<>>]

RECURSIVE DupTokens(_, _)
DupTokens(nums, letter) ==
    IF nums = <<>> THEN <<>>
    ELSE nums[1].text \o <<letter>> \o DupTokens(Tail(nums), letter)

DupText(d) ==
    <<"P">> \o (IF d.half = "time" THEN <<d.sep>> ELSE <<>>) \o DupTokens(d.nums, d.letter)

\* The example string of the docstrings (lines 103 and 181) and of the error
\* messages (lines 113, 142 and 153).
DocExample == <<"P", "Y", "2", "M", "3", "D", "T", "4", "H", "5", "M", "6", "S">>

DeltaArg(cs, free, form) ==
    [fn |-> "idle", arg |-> PyStr(cs), free |-> free, form |-> form, dup |-> NoDup]

DupArg(d) == [DeltaArg(DupText(d), TRUE, FreeDeltaForm) EXCEPT !.dup = d]

(***************************************************************************)
(* Duration parser specification: a string is chosen, then either          *)
(* _parse_datetime_delta or parse_datetimestr_delta_to_float_days is       *)
(* applied to it.                                                          *)
(***************************************************************************)
InitDelta ==
    /\ cube = IdleCube
    /\ lastCall = NoCall(IdleCube)
    /\ calls = 0
    /\ \/ \E lw \in BOOLEAN, sp \in Separators, y \in DeltaUnits, mo \in DeltaUnits,
              d \in DeltaUnits, h \in DeltaUnits, mi \in DeltaUnits, sc \in DeltaUnits :
              LET f == DeltaForm(lw, sp, y, mo, d, h, mi, sc)
              IN dtInput = DeltaArg(DeltaFormText(f), FALSE, f)
       \/ \E lw \in BOOLEAN, y \in DeltaUnits, mo \in DeltaUnits, d \in DeltaUnits :
              LET f == DeltaForm(lw, "", y, mo, d, Absent, Absent, Absent)
              IN dtInput = DeltaArg(DeltaFormText(f), FALSE, f)
       \/ \E cs \in SeqsUpTo({"P", "1", "Y", "M", "D", "H", "X", "T", ":"}, 0, MaxStr) :
              dtInput = DeltaArg(cs, TRUE, FreeDeltaForm)
       \/ dtInput = DeltaArg(DocExample, TRUE, FreeDeltaForm)
       \/ \E letter \in {"Y", "M", "D"}, nums \in SeqsUpTo(DupNumerals, 2, MaxDup) :
              dtInput = DupArg([half |-> "date", sep |-> "", letter |-> letter,
                                nums |-> nums])
       \/ \E letter \in {"H", "M", "S"}, sp \in Separators,
              nums \in SeqsUpTo(DupNumerals, 2, MaxDup) :
              dtInput = DupArg([half |-> "time", sep |-> sp, letter |-> letter,
                                nums |-> nums])
    /\ dtOut = NoParse

CallParseDelta ==
    /\ dtInput.fn = "idle"
    /\ dtInput' = [dtInput EXCEPT !.fn = "_parse_datetime_delta"]
    /\ dtOut' = _parse_datetime_delta(dtInput.arg.chars)
    /\ UNCHANGED <<cube, lastCall, calls>>

\* The numbers of seconds are kept in 32-bit integers: durations are
\* converted when no field of the parsed delta exceeds MaxCount.
Convertible(delta) ==
    \A n \in {delta.year, delta.month, delta.day, delta.hour, delta.minute, delta.second} :
        n <= MaxCount

CallDeltaToFloatDays ==
    /\ dtInput.fn = "idle"
    /\ Convertible(_parse_datetime_delta(dtInput.arg.chars).value)
    /\ dtInput' = [dtInput EXCEPT !.fn = "parse_datetimestr_delta_to_float_days"]
    /\ dtOut' = parse_datetimestr_delta_to_float_days(dtInput.arg.chars)
    /\ UNCHANGED <<cube, lastCall, calls>>

NextDelta == CallParseDelta \/ CallDeltaToFloatDays

SpecDelta == InitDelta /\ [][NextDelta]_vars

(***************************************************************************)
(* Properties of the duration parser.                                      *)
(***************************************************************************)
HourOnly == [year |-> 0, month |-> 0, day |-> 0, hour |-> 1, minute |-> 0, second |-> 0]

\* C8: for every string P[aY][bM][cD][<sep>[dH][eM][fS]], in upper or lower
\* case, _parse_datetime_delta returns date_delta(year=a, month=b, day=c,
\* hour=d, minute=e, second=f) with 0 for every absent unit; M before the
\* separator is the month and M after it the minute; 'PT1H' and 'pt1h' give
\* hour=1 and 0 elsewhere.
C8_DeltaFormsGiveFields ==
    (dtInput.fn = "_parse_datetime_delta")
    => /\ ~dtInput.free
            => /\ dtOut.outcome = "return"
               /\ dtOut.value = DeltaFormValue(dtInput.form)
       /\ dtInput.arg.chars \in {<<"P", "T", "1", "H">>, <<"p", "t", "1", "h">>}
            => /\ dtOut.outcome = "return"
               /\ dtOut.value = HourOnly

\* Witness of C8: a lower-case string with all six units, a month different
\* from the minute, and ':' as separator was parsed.
C8_Witness ==
    /\ dtInput.fn = "_parse_datetime_delta"
    /\ ~dtInput.free
    /\ dtInput.form.lower
    /\ dtInput.form.sep = ":"
    /\ \A u \in {dtInput.form.year, dtInput.form.month, dtInput.form.day,
                 dtInput.form.hour, dtInput.form.minute, dtInput.form.second} :
          u # Absent
    /\ dtOut.outcome = "return"
    /\ dtOut.value.month = 3
    /\ dtOut.value.minute = 1

\* The total number of seconds of a delta as the claim C9 writes it.
ClaimedSeconds(d) ==
    86400 * d.day + 2629746 * d.month + 31556952 * d.year
      + 3600 * d.hour + 60 * d.minute + d.second

\* C9: the fractional days of a date_delta are its total seconds,
\* 86400*day + 2629746*month + 31556952*year + 3600*hour + 60*minute + second,
\* divided by 86400; 'P1Y' gives 365.2425, 'PT1H' gives 1/24 and
\* 'P0Y0M0DT0H0M0S' gives a zero delta and 0.
C9_FloatDays ==
    (dtInput.fn = "parse_datetimestr_delta_to_float_days" /\ dtOut.outcome = "return")
    => /\ dtOut.days = Frac(ClaimedSeconds(dtOut.value), 86400)
       /\ dtInput.arg.chars = <<"P", "1", "Y">> => dtOut.days = Frac(3652425, 10000)
       /\ dtInput.arg.chars = <<"P", "T", "1", "H">> => dtOut.days = <<1, 24>>
       /\ dtInput.arg.chars = <<"P", "0", "Y", "0", "M", "0", "D", "T",
                                "0", "H", "0", "M", "0", "S">>
            => (dtOut.value = ZeroDelta /\ dtOut.days = <<0, 1>>)

\* Witness of C9: a duration with years, months, days and a time part was
\* converted.
C9_Witness ==
    /\ dtInput.fn = "parse_datetimestr_delta_to_float_days"
    /\ dtOut.outcome = "return"
    /\ dtOut.value.year = 3
    /\ dtOut.value.month = 1
    /\ dtOut.value.day = 1
    /\ dtOut.value.hour = 3
    /\ dtOut.value.second = 1
    /\ dtOut.days = Frac(3 * 31556952 + 2629746 + 86400 + 3 * 3600 + 1, 86400)

\* A token of the date half with a letter other than Y, M, D, or of the time
\* half with a letter other than H, M, S.
HasForeignUnit(chars) ==
    LET m == delta_match(str_upper(chars))
        dts == re_findall_tokens(m.date)
        tts == re_findall_tokens(m.time)
    IN /\ m.matched
       /\ \/ \E k \in 1..Len(dts) : dts[k].letter \notin {"Y", "M", "D"}
          \/ \E k \in 1..Len(tts) : tts[k].letter \notin {"H", "M", "S"}

\* C10: _parse_datetime_delta raises ValueError whenever a token of the date
\* half ends in a letter other than Y, M, D or a token of the time half in a
\* letter other than H, M, S; 'P1X', 'P1H' and 'PT1D' fail.
C10_ForeignUnitRejected ==
    (dtInput.fn = "_parse_datetime_delta")
    => /\ HasForeignUnit(dtInput.arg.chars)
            => (dtOut.outcome = "raise" /\ dtOut.exc = "ValueError")
       /\ dtInput.arg.chars \in {<<"P", "1", "X">>, <<"P", "1", "H">>,
                                 <<"P", "T", "1", "D">>}
            => (dtOut.outcome = "raise" /\ dtOut.exc = "ValueError")

\* Witness of C10: an hour token in front of the separator was rejected.
C10_Witness ==
    /\ dtInput.fn = "_parse_datetime_delta"
    /\ dtInput.arg.chars = <<"P", "1", "H", "T">>
    /\ HasForeignUnit(dtInput.arg.chars)
    /\ dtOut.outcome = "raise"
    /\ dtOut.exc = "ValueError"

\* The field a unit letter of a half stands for.
DupField(d) ==
    IF d.half = "date"
    THEN (CASE d.letter = "Y" -> "year" [] d.letter = "M" -> "month" [] OTHER -> "day")
    ELSE (CASE d.letter = "H" -> "hour" [] d.letter = "M" -> "minute" [] OTHER -> "second")

\* C11: when the same unit letter occurs in several tokens of one half of a
\* duration string, _parse_datetime_delta returns (it does not fail) and the
\* field has the value of the last such token, not the sum; 'P1Y2Y' gives
\* year=2 and 'PT3M7M' gives minute=7.
C11_LastDuplicateWins ==
    (dtInput.fn = "_parse_datetime_delta")
    => /\ dtInput.dup # NoDup
            => /\ dtOut.outcome = "return"
               /\ dtOut.value =
                    [ZeroDelta EXCEPT ![DupField(dtInput.dup)] =
                        dtInput.dup.nums[Len(dtInput.dup.nums)].val]
       /\ dtInput.arg.chars = <<"P", "1", "Y", "2", "Y">>
            => (dtOut.outcome = "return" /\ dtOut.value = [ZeroDelta EXCEPT !.year = 2])
       /\ dtInput.arg.chars = <<"P", "T", "3", "M", "7", "M">>
            => (dtOut.outcome = "return" /\ dtOut.value = [ZeroDelta EXCEPT !.minute = 7])

\* Witness of C11: a string with three minute tokens after a ':' separator,
\* the last one smaller than the first, was parsed.
C11_Witness ==
    /\ dtInput.fn = "_parse_datetime_delta"
    /\ dtInput.arg.chars = <<"P", ":", "7", "M", "3", "M", "2", "M">>
    /\ dtInput.dup.half = "time"
    /\ dtOut.outcome = "return"
    /\ dtOut.value.minute = 2
    /\ dtOut.value.month = 0

\* C13: the example duration string of the documentation and of the parser's
\* error message, 'PY2M3DT4H5M6S', is accepted: _parse_datetime_delta returns
\* a date_delta for it and parse_datetimestr_delta_to_float_days a fractional
\* day, without ValueError.
C13_DocExampleAccepted ==
    (/\ dtInput.fn \in {"_parse_datetime_delta", "parse_datetimestr_delta_to_float_days"}
     /\ dtInput.arg.chars = DocExample)
    => dtOut.outcome = "return"

(***************************************************************************)
(* parse_as_number_or_partial_datetime(string) and                          *)
(* parse_as_number_or_datetime(string).                                     *)
(* A value is a record: kind says which of the fields is meant.  A float    *)
(* is kept as mant * 10^exp (or as one of the words inf, nan).              *)
(***************************************************************************)
NoValue == [kind |-> "none", int |-> 0, mant |-> 0, exp |-> 0, word |-> "",
            delta |-> ZeroDelta]

IntValue(n) == [NoValue EXCEPT !.kind = "int", !.int = n]
FloatValue(m, e) == [NoValue EXCEPT !.kind = "float", !.mant = m, !.exp = e]
FloatWord(w) == [NoValue EXCEPT !.kind = "float", !.word = w]
DatetimeValue == [NoValue EXCEPT !.kind = "datetime"]
DeltaValue(d) == [NoValue EXCEPT !.kind = "date_delta", !.delta = d]

AllDigits(ds) == \A k \in 1..Len(ds) : ds[k] \in Digits

\* An optional sign followed by at least one digit (the exponent of a float).
signed_digits(x) ==
    LET signed == x # <<>> /\ x[1] \in {"-", "+"}
        ds == IF signed THEN Tail(x) ELSE x
    IN IF ds # <<>> /\ AllDigits(ds)
       THEN [ok |-> TRUE,
             val |-> IF signed /\ x[1] = "-" THEN 0 - DecimalValue(ds) ELSE DecimalValue(ds)]
       ELSE [ok |-> FALSE, val |-> 0]

\* float(x) for a string x: surrounding blanks are dropped, one sign is
\* allowed, then inf, infinity or nan in any case, or digits with at most one
\* point and at least one digit, optionally followed by e or E and a signed
\* integer; anything else is a ValueError.
py_float(x) ==
    LET t == str_strip(x)
        signed == t # <<>> /\ t[1] \in {"-", "+"}
        neg == signed /\ t[1] = "-"
        b == IF signed THEN Tail(t) ELSE t
        ePos == FirstIn(b, {"e", "E"})
        mantStr == IF ePos = 0 THEN b ELSE SubSeq(b, 1, ePos - 1)
        expPart == IF ePos = 0 THEN [ok |-> TRUE, val |-> 0]
                   ELSE signed_digits(SubSeq(b, ePos + 1, Len(b)))
        dot == FirstIn(mantStr, {"."})
        intPart == IF dot = 0 THEN mantStr ELSE SubSeq(mantStr, 1, dot - 1)
        fracPart == IF dot = 0 THEN <<>> ELSE SubSeq(mantStr, dot + 1, Len(mantStr))
        m == DecimalValue(intPart \o fracPart)
    IN IF str_upper(b) \in {<<"I", "N", "F">>, <<"I", "N", "F", "I", "N", "I", "T", "Y">>}
       THEN [ok |-> TRUE, val |-> FloatWord(IF neg THEN "-inf" ELSE "inf")]
       ELSE IF str_upper(b) = <<"N", "A", "N">>
       THEN [ok |-> TRUE, val |-> FloatWord("nan")]
       ELSE IF /\ AllDigits(intPart) /\ AllDigits(fracPart)
               /\ Len(intPart) + Len(fracPart) >= 1
               /\ expPart.ok
       THEN [ok |-> TRUE,
             val |-> FloatValue(IF neg THEN 0 - m ELSE m, expPart.val - Len(fracPart))]
       ELSE [ok |-> FALSE, val |-> NoValue]

\* dateutil.parser.parse(s), called by _parse_datetime, is a library outside
\* the repository: for a string it returns a datetime, raises ValueError, or
\* raises OverflowError; which one is an input of the step that calls it.
_parse_datetime(duOutcome) ==
    IF duOutcome = "return"
    THEN [outcome |-> "return", exc |-> "", value |-> DatetimeValue]
    ELSE [outcome |-> "raise", exc |-> duOutcome, value |-> NoValue]

\* "'{}' is not a valid value.".format(string)
not_valid_value(string) ==
    <<"'">> \o string \o <<"'", " ", "i", "s", " ", "n", "o", "t", " ", "a", " ",
                           "v", "a", "l", "i", "d", " ", "v", "a", "l", "u", "e", ".">>

\* The state of a call: pc is the attempt to run next ("done" after the call
\* has returned or raised), attempts the log of the attempts run so far.
NumberStart ==
    [pc |-> "int", attempts |-> <<>>, outcome |-> "none", exc |-> "",
     message |-> <<>>, value |-> NoValue]

Attempt(what, result) == [what |-> what, result |-> result]

\* The call returns the value of the attempt just run.
NumberReturn(st, what, v) ==
    [st EXCEPT !.pc = "done", !.attempts = Append(@, Attempt(what, "return")),
               !.outcome = "return", !.value = v]

\* The attempt just run raised ValueError: the except clause runs the next.
NumberNext(st, what, next) ==
    [st EXCEPT !.pc = next, !.attempts = Append(@, Attempt(what, "ValueError"))]

\* The attempt just run raised an exception no except clause catches.
NumberPropagate(st, what, exc) ==
    [st EXCEPT !.pc = "done", !.attempts = Append(@, Attempt(what, exc)),
               !.outcome = "raise", !.exc = exc]

\* Line 224: ret = int(string); int(None) is a TypeError.
try_int(st, arg) ==
    IF arg.isNone THEN NumberPropagate(st, "int", "TypeError")
    ELSE IF py_int(arg.chars).ok
    THEN NumberReturn(st, "int", IntValue(py_int(arg.chars).val))
    ELSE NumberNext(st, "int", "float")

\* A variant in which a string that is not a float goes straight to the
\* duration parser.
try_float_skips(st, arg) ==
    IF py_float(arg.chars).ok
    THEN NumberReturn(st, "float", py_float(arg.chars).val)
    ELSE NumberNext(st, "float", "duration")

\* Line 227: ret = float(string).
try_float(st, arg) ==
    IF py_float(arg.chars).ok
    THEN NumberReturn(st, "float", py_float(arg.chars).val)
    ELSE NumberNext(st, "float", "datetime")

\* Line 230: ret = _parse_datetime(string).
try_datetime(st, arg, duOutcome) ==
    LET r == _parse_datetime(duOutcome)
    IN IF r.outcome = "return" THEN NumberReturn(st, "datetime", r.value)
       ELSE IF r.exc = "ValueError" THEN NumberNext(st, "datetime", "duration")
       ELSE NumberPropagate(st, "datetime", r.exc)

\* Lines 233-235: ret = _parse_datetime_delta(string), and the
\* ArgumentTypeError raised when that fails too.
try_duration(st, arg) ==
    LET r == _parse_datetime_delta(arg.chars)
    IN IF r.outcome = "return" THEN NumberReturn(st, "duration", DeltaValue(r.value))
       ELSE [st EXCEPT !.pc = "done",
                       !.attempts = Append(@, Attempt("duration", "ValueError")),
                       !.outcome = "raise", !.exc = "ArgumentTypeError",
                       !.message = not_valid_value(arg.chars)]

\* parse_as_number_or_datetime(string): line 200 reads the name in_string,
\* which is neither a parameter nor a global of the module, so the call
\* raises NameError before anything else is done.
parse_as_number_or_datetime(arg) ==
    [pc |-> "done", attempts |-> <<>>, outcome |-> "raise", exc |-> "NameError",
     message |-> <<>>, value |-> NoValue]

(***************************************************************************)
(* Number-or-date specification: an argument is chosen, then one of the two *)
(* functions is called; parse_as_number_or_partial_datetime runs its        *)
(* attempts one step at a time.                                             *)
(***************************************************************************)
NumberArg(arg) == [fn |-> "idle", arg |-> arg]

InitNumber ==
    /\ cube = IdleCube
    /\ lastCall = NoCall(IdleCube)
    /\ calls = 0
    /\ \/ \E cs \in SeqsUpTo({"1", ".", "-", "e", "P", "Y", "T", " "}, 0, MaxStr) :
             dtInput = NumberArg(PyStr(cs))
       \/ dtInput \in {NumberArg(PyStr(NoneWord)), NumberArg(PyNone)}
    /\ dtOut = NoParse

CallNumberOrPartial ==
    /\ dtInput.fn = "idle"
    /\ dtInput' = [dtInput EXCEPT !.fn = "parse_as_number_or_partial_datetime"]
    /\ dtOut' = NumberStart
    /\ UNCHANGED <<cube, lastCall, calls>>

Running(pc) == dtInput.fn = "parse_as_number_or_partial_datetime" /\ dtOut.pc = pc

TryInt ==
    /\ Running("int")
    /\ dtOut' = try_int(dtOut, dtInput.arg)
    /\ UNCHANGED <<cube, lastCall, calls, dtInput>>

TryFloat ==
    /\ Running("float")
    /\ dtOut' = try_float(dtOut, dtInput.arg)
    /\ UNCHANGED <<cube, lastCall, calls, dtInput>>

TryDatetime ==
    /\ Running("datetime")
    /\ \E duOutcome \in {"return", "ValueError", "OverflowError"} :
         dtOut' = try_datetime(dtOut, dtInput.arg, duOutcome)
    /\ UNCHANGED <<cube, lastCall, calls, dtInput>>

TryDuration ==
    /\ Running("duration")
    /\ dtOut' = try_duration(dtOut, dtInput.arg)
    /\ UNCHANGED <<cube, lastCall, calls, dtInput>>

CallNumberOrDatetime ==
    /\ dtInput.fn = "idle"
    /\ dtInput' = [dtInput EXCEPT !.fn = "parse_as_number_or_datetime"]
    /\ dtOut' = parse_as_number_or_datetime(dtInput.arg)
    /\ UNCHANGED <<cube, lastCall, calls>>

NextNumber ==
    \/ CallNumberOrPartial
    \/ TryInt
    \/ TryFloat
    \/ TryDatetime
    \/ TryDuration
    \/ CallNumberOrDatetime

SpecNumber == InitNumber /\ [][NextNumber]_vars

(***************************************************************************)
(* Properties of parse_as_number_or_partial_datetime.                       *)
(***************************************************************************)
AttemptOrder == <<"int", "float", "datetime", "duration">>

\* The value the attempt `what` returns for the string cs.
AttemptValue(what, cs) ==
    CASE what = "int" -> IntValue(py_int(cs).val)
      [] what = "float" -> py_float(cs).val
      [] what = "datetime" -> DatetimeValue
      [] what = "duration" -> DeltaValue(_parse_datetime_delta(cs).value)

\* C12: parse_as_number_or_partial_datetime(s) attempts integer, float,
\* datetime and duration parsing in this order, runs an attempt only when the
\* one before it raised ValueError, returns the result of the first attempt
\* that succeeds without running a later one, and raises ArgumentTypeError
\* with the message "'<s>' is not a valid value." exactly when all four
\* attempts have failed.
C12_AttemptsInOrder ==
    (dtInput.fn = "parse_as_number_or_partial_datetime" /\ ~dtInput.arg.isNone)
    => LET a == dtOut.attempts
           n == Len(a)
           allFailed == n = 4 /\ \A k \in 1..4 : a[k].result = "ValueError"
       IN /\ n <= 4
          /\ \A k \in 1..n : a[k].what = AttemptOrder[k]
          /\ \A k \in 1..(n - 1) : a[k].result = "ValueError"
          /\ dtOut.pc # "done"
               => /\ \A k \in 1..n : a[k].result = "ValueError"
                  /\ dtOut.pc = AttemptOrder[n + 1]
                  /\ dtOut.outcome = "none"
          /\ dtOut.pc = "done"
               => /\ n >= 1
                  /\ dtOut.outcome \in {"return", "raise"}
                  /\ dtOut.outcome = "return"
                       <=> a[n].result = "return"
                  /\ dtOut.outcome = "return"
                       => dtOut.value = AttemptValue(a[n].what, dtInput.arg.chars)
                  /\ (dtOut.outcome = "raise" /\ dtOut.exc = "ArgumentTypeError")
                       <=> allFailed
                  /\ allFailed
                       => dtOut.message =
                            <<"'">> \o dtInput.arg.chars
                              \o <<"'", " ", "i", "s", " ", "n", "o", "t", " ", "a", " ">>
                              \o <<"v", "a", "l", "i", "d", " ">>
                              \o <<"v", "a", "l", "u", "e", ".">>
          /\ (n >= 1 /\ py_int(dtInput.arg.chars).ok) => (n = 1 /\ a[1].result = "return")
          /\ (n >= 2 /\ py_float(dtInput.arg.chars).ok) => (n = 2 /\ a[2].result = "return")
          /\ (n = 4 /\ dtOut.pc = "done")
               => (dtOut.outcome = "return"
                     <=> _parse_datetime_delta(dtInput.arg.chars).outcome = "return")

\* Witness of C12: a string that is no number and that the date parser
\* rejected went through all four attempts and came back as a duration.
C12_Witness ==
    /\ dtInput.fn = "parse_as_number_or_partial_datetime"
    /\ dtInput.arg = PyStr(<<"P", "1", "Y">>)
    /\ dtOut.pc = "done"
    /\ Len(dtOut.attempts) = 4
    /\ dtOut.attempts[3] = Attempt("datetime", "ValueError")
    /\ dtOut.outcome = "return"
    /\ dtOut.value.kind = "date_delta"
    /\ dtOut.value.delta.year = 1

(***************************************************************************)
(* Properties of parse_as_number_or_datetime.                               *)
(***************************************************************************)
\* C14: parse_as_number_or_datetime(string) returns None when string is None
\* or 'None', the int value when string is an integer literal, the float
\* value when it is a float literal, and raises nothing but
\* argparse.ArgumentTypeError for any string.
C14_NumberOrDatetimeRaisesOnlyArgumentTypeError ==
    (dtInput.fn = "parse_as_number_or_datetime")
    => /\ (dtInput.arg.isNone \/ dtInput.arg.chars = NoneWord)
            => (dtOut.outcome = "return" /\ dtOut.value = NoValue)
       /\ (~dtInput.arg.isNone /\ py_int(dtInput.arg.chars).ok)
            => (dtOut.outcome = "return"
                  /\ dtOut.value = IntValue(py_int(dtInput.arg.chars).val))
       /\ (~dtInput.arg.isNone /\ ~py_int(dtInput.arg.chars).ok
              /\ py_float(dtInput.arg.chars).ok)
            => (dtOut.outcome = "return"
                  /\ dtOut.value = py_float(dtInput.arg.chars).val)
       /\ dtOut.outcome = "raise" => dtOut.exc = "ArgumentTypeError"

(***************************************************************************)
(* GriddedData.__init__, add_history and make_new_with_same_coordinates.    *)
(* A new GriddedData is a record with the metadata given to the             *)
(* constructor, the coordinates and data it was built with, and its         *)
(* attributes, a dictionary: a set of [key, value] records with one record  *)
(* per key, the values being strings.                                       *)
(***************************************************************************)
dict_keys(d) == {e.key : e \in d}
dict_set(d, key, value) ==
    {e \in d : e.key # key} \cup {[key |-> key, value |-> value]}
dict_pop(d, key) == {e \in d : e.key # key}

\* np.zeros(shape)
np_zeros(shape) == [shape |-> shape, val |-> [idx \in Indices(shape) |-> 0]]

\* The names iris.std_names.STD_NAMES knows and the units the cube accepts,
\* among the strings the arguments are drawn from.
STD_NAMES == { <<"t", "i", "m", "e">> }
ValidUnits == { <<"m">> }

\* strftime("%Y-%m-%dT%H:%M:%SZ ", gmtime()) at the time of the call.
Timestamp == <<"2", "0", "1", "5", "-", "0", "1", "-", "0", "1", "T",
               "0", "0", ":", "0", "0", ":", "0", "0", "Z", " ">>

\* GriddedData(data=.., standard_name=.., long_name=.., var_name=.., units=..,
\* dim_coords_and_dims=.., aux_coords_and_dims=..): a standard name that is
\* not in STD_NAMES (None included) is dropped with a warning, and so is a
\* unit the cube rejects with ValueError.
GriddedData_init(data, standard_name, long_name, var_name, units, c) ==
    [data |-> data,
     standard_name |-> IF ~standard_name.isNone /\ standard_name.chars \in STD_NAMES
                       THEN standard_name ELSE PyNone,
     long_name |-> long_name,
     var_name |-> var_name,
     units |-> IF units.isNone \/ units.chars \in ValidUnits THEN units ELSE PyNone,
     shape |-> data.shape,
     hasLon |-> c.hasLon, lonDim |-> c.lonDim, dimCoordDims |-> c.dimCoordDims,
     points |-> c.points, bounds |-> c.bounds,
     hasBounds |-> c.hasBounds,
     auxDims |-> c.auxDims, aux |-> c.aux, dimPoints |-> c.dimPoints,
     dimNames |-> c.dimNames,
     hasTime |-> c.hasTime,
     attributes |-> {},
     local_attributes |-> <<>>]

\* add_history(new_history): attributes['history'] is created, or extended
\* after a newline; timestamp + new_history is a TypeError when new_history
\* is None.
add_history(g, new_history) ==
    IF new_history.isNone
    THEN [outcome |-> "raise", exc |-> "TypeError", obj |-> g]
    ELSE [outcome |-> "return", exc |-> "",
          obj |-> [g EXCEPT !.attributes =
                     IF "history" \notin dict_keys(g.attributes)
                     THEN dict_set(@, "history", Timestamp \o new_history.chars)
                     ELSE dict_set(@, "history",
                            (CHOOSE e \in @ : e.key = "history").value \o <<"\n">>
                               \o Timestamp \o new_history.chars)]]

\* make_new_with_same_coordinates(data, var_name, standard_name, long_name,
\* history, units, flatten) on the cube c; data is [isNone, array].
make_new_with_same_coordinates(c, a) ==
    LET data == IF a.data.isNone THEN np_zeros(c.shape) ELSE a.data.array
        new == GriddedData_init(data, a.standard_name, a.long_name, a.var_name,
                                a.units, c)
    IN add_history(new, a.history)

(***************************************************************************)
(* GriddedData.sampled_from(data, how, kernel, ...).                        *)
(* The collocator and constraint classes, get_kernel and collocate live in  *)
(* cis.collocation: a class called with keyword arguments gives an instance *)
(* holding them, and an instance is not callable.                           *)
(***************************************************************************)
NoKwargs ==
    [missing_data_for_missing_sample |-> FALSE, fill_value |-> PyNone,
     var_name |-> <<>>, var_long_name |-> <<>>, var_units |-> <<>>]

\* The class object cls, and cls() called without arguments.
ClassObject(cls) == [isClass |-> TRUE, class |-> cls, given |-> FALSE, kwargs |-> NoKwargs]
DefaultInstance(cls) == [isClass |-> FALSE, class |-> cls, given |-> FALSE, kwargs |-> NoKwargs]

NoObject == [isClass |-> FALSE, class |-> "", given |-> FALSE, kwargs |-> NoKwargs]

\* col_cls(missing_data_for_missing_sample=.., fill_value=.., var_name=..,
\* var_long_name=.., var_units=..): constructs an instance when col_cls is a
\* class; calling an instance raises TypeError (object is not callable).
call_col_cls(col_cls, kwargs) ==
    IF col_cls.isClass
    THEN [outcome |-> "return", exc |-> "",
          obj |-> [isClass |-> FALSE, class |-> col_cls.class, given |-> TRUE,
                   kwargs |-> kwargs]]
    ELSE [outcome |-> "raise", exc |-> "TypeError", obj |-> NoObject]

\* get_kernel(kernel): "We can have any kernel, default to moments".
get_kernel(kernel) == IF kernel.isNone THEN "moments" ELSE kernel.chars

UngriddedTypes == {"UngriddedData", "UngriddedDataList"}
GriddedTypes == {"GriddedData", "GriddedDataList"}

\* A raised exception; its message is the concatenation of the strings of
\* message.
SampleRaised(exc, message) ==
    [outcome |-> "raise", exc |-> exc, message |-> message, con |-> "", kernel |-> "",
     col |-> NoObject, collocateCalls |-> 0]

\* Lines 384-387: build the collocator and hand it to collocate.
sample_collocate(col_cls, con, kernel, a) ==
    LET col == call_col_cls(col_cls,
                 [missing_data_for_missing_sample |-> a.missing_data_for_missing_sample,
                  fill_value |-> a.fill_value, var_name |-> a.var_name,
                  var_long_name |-> a.var_long_name, var_units |-> a.var_units])
    IN IF col.outcome = "raise" THEN SampleRaised(col.exc, <<>>)
       ELSE [outcome |-> "return", exc |-> "", message |-> <<>>, con |-> con,
             kernel |-> kernel, col |-> col.obj, collocateCalls |-> 1]

sampled_from(a) ==
    IF a.dataType \in UngriddedTypes
    THEN LET col_cls == DefaultInstance("GeneralGriddedCollocator")
         IN IF a.how = "" \/ a.how = "bin"
            THEN sample_collocate(col_cls, "BinnedCubeCellOnlyConstraint",
                                  get_kernel(a.kernel), a)
            ELSE IF a.how = "box"
            THEN sample_collocate(col_cls, "SepConstraintKdtree", get_kernel(a.kernel), a)
            ELSE SampleRaised("ValueError",
                   <<"Invalid method specified for ungridded -> gridded collocation: ",
                     a.how>>)
    ELSE IF a.dataType \in GriddedTypes
    THEN LET col_cls == ClassObject("GriddedCollocator")
         IN IF ~a.kernel.isNone
            THEN SampleRaised("ValueError",
                   <<"Cannot specify kernel when method is 'lin' or 'nn'">>)
            ELSE IF a.how = "" \/ a.how = "lin"
            THEN sample_collocate(col_cls, "None", "gridded_gridded_li", a)
            ELSE IF a.how = "nn"
            THEN sample_collocate(col_cls, "None", "gridded_gridded_nn", a)
            ELSE SampleRaised("ValueError",
                   <<"Invalid method specified for gridded -> gridded collocation: ",
                     a.how>>)
    ELSE SampleRaised("ValueError",
           <<"Invalid argument, data must be either GriddedData or UngriddedData">>)

(***************************************************************************)
(* Gridded-data specification: a GriddedData object and the arguments of    *)
(* one call are chosen, then make_new_with_same_coordinates or sampled_from *)
(* is called on it.                                                         *)
(***************************************************************************)

OptionalNames == {PyNone, PyStr(<<"l", "o", "n">>), PyStr(<<"m">>)}
Histories == {PyNone, PyStr(<<>>), PyStr(<<"h">>)}


\* The objects the methods are called on: the layouts with longitude points
\* -10, 10, and one object without longitude.
InitGridded ==
    /\ cube \in { MakeCube(l.shape, TRUE, l.lonDim, l.dimCoordDims, <<-10, 10>>, b,
                            l.auxDims) :
                     l \in Layouts(2), b \in {"none", "guess", "narrow"} }
                 \cup {NoLonCube}
    /\ lastCall = NoCall(cube)
    /\ calls = 0
    /\ dtInput = [fn |-> "idle"]
    /\ dtOut = NoParse

MakeNewWithSameCoordinates ==
    /\ dtInput.fn = "idle"
    /\ \E givenData \in BOOLEAN, var_name \in OptionalNames,
          standard_name \in {PyNone, PyStr(<<"t", "i", "m", "e">>), PyStr(<<"m">>)},
          units \in OptionalNames, history \in Histories :
         LET a == [fn |-> "make_new_with_same_coordinates",
                   data |-> [isNone |-> ~givenData, array |-> LabelArray(cube.shape)],
                   var_name |-> var_name, standard_name |-> standard_name,
                   long_name |-> PyNone, history |-> history, units |-> units]
         IN /\ dtInput' = a
            /\ dtOut' = make_new_with_same_coordinates(cube, a)
    /\ UNCHANGED <<cube, lastCall, calls>>

SampledFrom ==
    /\ dtInput.fn = "idle"
    /\ \E dataType \in UngriddedTypes \cup GriddedTypes \cup {"ndarray"},
          how \in {"", "bin", "box", "lin", "nn", "li"},
          kernel \in {PyNone, PyStr(<<"m", "e", "a", "n">>)}, missing \in BOOLEAN,
          fill_value \in {PyNone, PyStr(<<"-", "1">>)},
          var_name \in {<<>>, <<"v">>}, var_units \in {<<>>, <<"v">>} :
         LET a == [fn |-> "sampled_from", dataType |-> dataType, how |-> how,
                   kernel |-> kernel, missing_data_for_missing_sample |-> missing,
                   fill_value |-> fill_value, var_name |-> var_name,
                   var_long_name |-> <<>>, var_units |-> var_units]
         IN /\ dtInput' = a
            /\ dtOut' = sampled_from(a)
    /\ UNCHANGED <<cube, lastCall, calls>>

NextGridded == MakeNewWithSameCoordinates \/ SampledFrom

SpecGridded == InitGridded /\ [][NextGridded]_vars

(***************************************************************************)
(* Properties of make_new_with_same_coordinates and sampled_from.           *)
(***************************************************************************)
\* C15: make_new_with_same_coordinates called without data and without
\* history returns, without raising, a new GriddedData with the shape and
\* the coordinates of the original and all-zero data.
C15_DefaultsGiveZeroCopy ==
    (/\ dtInput.fn = "make_new_with_same_coordinates"
     /\ dtInput.data.isNone
     /\ dtInput.history.isNone)
    => /\ dtOut.outcome = "return"
       /\ dtOut.obj.shape = cube.shape
       /\ dtOut.obj.points = cube.points
       /\ dtOut.obj.bounds = cube.bounds
       /\ dtOut.obj.dimCoordDims = cube.dimCoordDims
       /\ dtOut.obj.aux = cube.aux
       /\ dtOut.obj.dimPoints = cube.dimPoints
       /\ \A idx \in Indices(cube.shape) : dtOut.obj.data.val[idx] = 0

\* The calls of sampled_from that the dispatch does not reject.
SampleAccepted(a) ==
    \/ a.dataType \in UngriddedTypes /\ a.how \in {"", "bin", "box"}
    \/ a.dataType \in GriddedTypes /\ a.kernel.isNone /\ a.how \in {"", "lin", "nn"}

\* C20: sampled_from selects, for ungridded data, the binned cell-only
\* constraint for how '' or 'bin' and the kd-tree separation constraint for
\* 'box'; for gridded data without kernel, linear interpolation for how '' or
\* 'lin' and nearest neighbour for 'nn'; every other call raises ValueError.
\* In every accepted case collocate is called exactly once, with a collocator
\* constructed with the caller's missing_data_for_missing_sample, fill_value,
\* var_name, var_long_name and var_units.
C20_SampledFromDispatch ==
    (dtInput.fn = "sampled_from")
    => LET a == dtInput
       IN /\ ~SampleAccepted(a) => (dtOut.outcome = "raise" /\ dtOut.exc = "ValueError")
          /\ SampleAccepted(a)
               => /\ dtOut.outcome = "return"
                  /\ dtOut.collocateCalls = 1
                  /\ dtOut.col.given
                  /\ dtOut.col.kwargs =
                       [missing_data_for_missing_sample |-> a.missing_data_for_missing_sample,
                        fill_value |-> a.fill_value, var_name |-> a.var_name,
                        var_long_name |-> a.var_long_name, var_units |-> a.var_units]
                  /\ (a.dataType \in UngriddedTypes /\ a.how \in {"", "bin"})
                       => dtOut.con = "BinnedCubeCellOnlyConstraint"
                  /\ (a.dataType \in UngriddedTypes /\ a.how = "box")
                       => dtOut.con = "SepConstraintKdtree"
                  /\ (a.dataType \in GriddedTypes /\ a.how \in {"", "lin"})
                       => dtOut.kernel = "gridded_gridded_li"
                  /\ (a.dataType \in GriddedTypes /\ a.how = "nn")
                       => dtOut.kernel = "gridded_gridded_nn"

(***************************************************************************)
(* Further properties of set_longitude_range: bounds, auxiliary             *)
(* coordinates, no-op cases and the two rotation cases.                     *)
(***************************************************************************)
\* The 1-based index the element at j came from in a roll by s of n elements.
SrcIndex(j, s, n) == ((j - 1 - s) % n) + 1

LowerEdges(b) == [j \in 1..Len(b) |-> b[j][1]]
UpperEdges(b) == [j \in 1..Len(b) |-> b[j][2]]

MonotonicBounds(b) ==
    \/ StrictlyIncreasing(LowerEdges(b)) /\ StrictlyIncreasing(UpperEdges(b))
    \/ StrictlyDecreasing(LowerEdges(b)) /\ StrictlyDecreasing(UpperEdges(b))

ContiguousBounds(b) == \A j \in 1..(Len(b) - 1) : b[j][2] = b[j + 1][1]

\* Bounds row j of the result is the old row (j - shift) mod n moved by the
\* offset that was added to the point at j.
BoundsFollowPoints(old, new, s) ==
    LET n == Len(old.points)
    IN \A j \in 1..n :
          LET src == SrcIndex(j, s, n)
              off == new.points[j] - old.points[src]
          IN /\ off \in {0, 360, -360}
             /\ new.bounds[j] = <<old.bounds[src][1] + off, old.bounds[src][2] + off>>

\* C16: when the call rotates a cube whose longitude has bounds,
\* bounds row j of the result is the old row (j - shift) mod n with the
\* offset of the point at j added to both edges, and monotonic contiguous
\* input bounds give monotonic output bounds; without bounds none are
\* created or written.
C16_BoundsFollowPointsMonotonic ==
    lastCall.called
    => LET old == lastCall.before
       IN /\ (lastCall.shift # 0 /\ old.hasBounds)
               => /\ BoundsFollowPoints(old, cube, lastCall.shift)
                  /\ (MonotonicBounds(old.bounds) /\ ContiguousBounds(old.bounds))
                       => MonotonicBounds(cube.bounds)
          /\ ~old.hasBounds => (~cube.hasBounds /\ cube.bounds = <<>>)

\* C17: when the call rotates by shift, every auxiliary coordinate spanning
\* the longitude dimension has its points rolled by shift along the axis of
\* its own array that is aligned with the longitude dimension, and every
\* other auxiliary coordinate and every non-longitude dimension coordinate
\* is left unchanged.
C17_AuxRolledAlongLongitudeAxis ==
    (lastCall.called /\ lastCall.shift # 0)
    => LET old == lastCall.before
       IN /\ \A k \in 1..Len(old.aux) :
                cube.aux[k] =
                  IF tuple_contains(old.auxDims[k], old.lonDim)
                  THEN np_roll(old.aux[k], lastCall.shift,
                               tuple_index(old.auxDims[k], old.lonDim))
                  ELSE old.aux[k]
          /\ cube.dimPoints = old.dimPoints

\* The left insertion point of v in the points p as the call finds it: for
\* increasing points the number of points smaller than v.
LeftInsertion(p, v) == Cardinality({j \in 1..Len(p) : p[j] < v})

\* C18: set_longitude_range mutates nothing (points, bounds, data, auxiliary
\* and other coordinates keep their values) when the cube has no coordinate
\* with standard name longitude, and when neither 0 < idx1 < n nor
\* 0 < idx2 < n, idx1 and idx2 being the left insertion points of range_start
\* and range_start + 360 in the n longitude points.
C18_NoOpCases ==
    lastCall.called
    => LET old == lastCall.before
           n == Len(old.points)
           sorted == old.hasLon /\ StrictlyIncreasing(old.points)
           idx1 == IF sorted THEN LeftInsertion(old.points, lastCall.range_start)
                   ELSE lastCall.idx1
           idx2 == IF sorted THEN LeftInsertion(old.points, lastCall.range_start + 360)
                   ELSE lastCall.idx2
       IN (\/ ~old.hasLon
           \/ (~(0 < idx1 /\ idx1 < n) /\ ~(0 < idx2 /\ idx2 < n)))
          => cube = old

\* Witness of C18: a call on a cube with bounds whose points all lie below
\* the window asked for (idx1 = idx2 = n) changed nothing, on a cube that an
\* earlier call had rotated.
C18_Witness ==
    /\ calls = 2
    /\ lastCall.called
    /\ lastCall.before.hasLon
    /\ lastCall.before.hasBounds
    /\ Len(lastCall.before.points) >= 3
    /\ StrictlyIncreasing(lastCall.before.points)
    /\ lastCall.before.data # LabelArray(lastCall.before.shape)
    /\ lastCall.idx1 = Len(lastCall.before.points)
    /\ lastCall.idx2 = Len(lastCall.before.points)
    /\ ~InWindow(lastCall.before.points, lastCall.range_start)
    /\ cube = lastCall.before

NonDecreasing(p) == \A j \in 1..(Len(p) - 1) : p[j] <= p[j + 1]

\* C19: for non-decreasing longitude points, in Case A (0 < idx1 < n) the
\* shift is -idx1 and exactly the idx1 points originally below range_start,
\* which are the last idx1 positions after the rotation, get +360 while no
\* other point changes value; Case B is used only when Case A does not apply
\* and 0 < idx2 < n, its shift is n - idx2 and exactly the n - idx2 points
\* originally >= range_start + 360, the first n - idx2 positions after the
\* rotation, get -360.  When both conditions hold only Case A is applied.
\* The points so computed are the points of the cube when the call returns.
C19_CaseAThenCaseB ==
    (lastCall.called /\ lastCall.before.hasLon /\ NonDecreasing(lastCall.before.points))
    => LET old == lastCall.before.points
           n == Len(old)
           lo == lastCall.range_start
           hi == lastCall.range_start + 360
           idx1 == LeftInsertion(old, lo)
           idx2 == LeftInsertion(old, hi)
           caseA == 0 < idx1 /\ idx1 < n
           caseB == ~caseA /\ 0 < idx2 /\ idx2 < n
       IN /\ lastCall.kind = "A" <=> caseA
          /\ lastCall.kind = "B" <=> caseB
          /\ caseA
               => /\ lastCall.shift = 0 - idx1
                  /\ \A j \in 1..n :
                       LET src == SrcIndex(j, lastCall.shift, n)
                       IN /\ (old[src] < lo) <=> (j > n - idx1)
                          /\ lastCall.new_lon_points[j] =
                               IF j > n - idx1 THEN old[src] + 360 ELSE old[src]
          /\ caseB
               => /\ lastCall.shift = n - idx2
                  /\ \A j \in 1..n :
                       LET src == SrcIndex(j, lastCall.shift, n)
                       IN /\ (old[src] >= hi) <=> (j <= n - idx2)
                          /\ lastCall.new_lon_points[j] =
                               IF j <= n - idx2 THEN old[src] - 360 ELSE old[src]
          /\ (lastCall.outcome = "return" /\ (caseA \/ caseB))
               => cube.points = lastCall.new_lon_points

\* Witness of C19: both 0 < idx1 < n and 0 < idx2 < n held and Case A was
\* applied, moving one point by +360 (points on more than 360 degrees, which
\* the coordinate then refused).
C19_Witness ==
    /\ lastCall.called
    /\ lastCall.before.hasLon
    /\ NonDecreasing(lastCall.before.points)
    /\ Len(cube.points) >= 3
    /\ 0 < lastCall.idx1 /\ lastCall.idx1 < Len(cube.points)
    /\ 0 < lastCall.idx2 /\ lastCall.idx2 < Len(cube.points)
    /\ lastCall.kind = "A"
    /\ lastCall.shift = -1
    /\ lastCall.new_lon_points[Len(cube.points)] = lastCall.before.points[1] + 360
    /\ lastCall.new_lon_points[1] = lastCall.before.points[2]

\* Strictly increasing points spanning less than 360 degrees.
IncreasingWithin360(p) == StrictlyIncreasing(p) /\ p[Len(p)] < p[1] + 360

\* C21: if the longitude points are strictly increasing and span less than
\* 360 degrees (last point < first point + 360), then after
\* set_longitude_range(range_start), for any range_start, they are again
\* strictly increasing and still span less than 360 degrees (the points are
\* accepted; the call returns unless the coordinate then refuses the bounds).
C21_IncreasingWithin360Preserved ==
    (lastCall.called /\ lastCall.before.hasLon
        /\ IncreasingWithin360(lastCall.before.points))
    => /\ IncreasingWithin360(cube.points)
       /\ lastCall.shift # 0 => cube.points = lastCall.new_lon_points
       /\ (lastCall.outcome = "raise") => lastCall.before.hasBounds

\* Witness of C21: a second call rotated, by Case B, four increasing points
\* within 360 degrees that a first call had already rotated.
C21_Witness ==
    /\ calls = 2
    /\ lastCall.called
    /\ lastCall.kind = "B"
    /\ Len(cube.points) = 4
    /\ IncreasingWithin360(lastCall.before.points)
    /\ lastCall.before.data # LabelArray(lastCall.before.shape)
    /\ cube.points # lastCall.before.points
    /\ IncreasingWithin360(cube.points)

(***************************************************************************)
(* Attributes specification: add_attributes, remove_attribute, add_history  *)
(* and save_data are called, up to MaxAttrCalls times in any order, on a    *)
(* new GriddedData, with or without a time coordinate.  The dictionary      *)
(* given to add_attributes is the sequence of its items.  dtOut keeps the   *)
(* arguments of the last iris.save and the flag                             *)
(* iris.FUTURE.netcdf_no_unlimited.                                         *)
(***************************************************************************)
MaxAttrCalls == 3    \* number of successive attribute calls
MaxAttrs == 2        \* largest number of items given to add_attributes

\* The keys and values the calls are given.  The attributes dictionary of a
\* cube refuses the names of the cube's own properties with ValueError.
AttrKeys == {"a", "history", "units"}
ForbiddenKeys == {"units"}

\* list.remove(key): the first occurrence goes, ValueError without one.
list_remove(l, key) ==
    LET j == CHOOSE k \in 1..Len(l) : l[k] = key /\ \A i \in 1..(k - 1) : l[i] # key
    IN [i \in 1..(Len(l) - 1) |-> IF i < j THEN l[i] ELSE l[i + 1]]

\* Lines 262-268: one item of add_attributes.  self.attributes[key] = value,
\* and on ValueError setattr(self, key, value), whose own ValueError (a unit
\* the cube rejects) is logged.
set_attribute(g, key, value) ==
    IF key \notin ForbiddenKeys
    THEN [g EXCEPT !.attributes = dict_set(@, key, value)]
    ELSE IF value \in ValidUnits THEN [g EXCEPT !.units = PyStr(value)]
    ELSE g

RECURSIVE set_attributes(_, _)
set_attributes(g, items) ==
    IF items = <<>> THEN g
    ELSE set_attributes(set_attribute(g, items[1].key, items[1].value), Tail(items))

\* add_attributes(attributes): every item is set, then every key is recorded
\* as a local attribute.
add_attributes(g, attributes) ==
    LET set == set_attributes(g, attributes)
    IN [set EXCEPT !.local_attributes =
          @ \o [j \in 1..Len(attributes) |-> attributes[j].key]]

\* remove_attribute(key)
remove_attribute(g, key) ==
    LET popped == [g EXCEPT !.attributes = dict_pop(@, key)]
    IN IF \E j \in 1..Len(g.local_attributes) : g.local_attributes[j] = key
       THEN [popped EXCEPT !.local_attributes = list_remove(@, key)]
       ELSE popped

\* Lines 290-293: the keyword arguments save_data gives to iris.save.
save_args(g) ==
    IF g.hasTime
    THEN [local_keys |-> g.local_attributes, unlimited_dimensions |-> <<"time">>]
    ELSE [local_keys |-> g.local_attributes]

\* save_data(output_file): the call of iris.save and the flag
\* iris.FUTURE.netcdf_no_unlimited afterwards, which line 295 sets for an
\* object without time coordinate; out is the record of the last save, of
\* an object or of a list (the flag is False before any).
save_data(g, out) ==
    [fn |-> "save_data", save_args |-> save_args(g),
     netcdf_no_unlimited |-> IF g.hasTime
                             THEN out.fn = "save_data" /\ out.netcdf_no_unlimited
                             ELSE TRUE]

\* GriddedDataList.save_data(output_file), lines 422-436, of the list l of
\* objects: save_args starts empty and gets unlimited_dimensions when the
\* list has a time coordinate, no local_keys are passed, and the flag
\* iris.FUTURE.netcdf_no_unlimited is set otherwise.  The coordinates of a
\* list are those of its first item (lines 438-446, 576-589).
GriddedDataList_save_data(l, out) ==
    [fn |-> "save_data",
     save_args |-> IF l[1].hasTime THEN [unlimited_dimensions |-> <<"time">>]
                   ELSE <<>>,
     netcdf_no_unlimited |-> IF l[1].hasTime
                             THEN out.fn = "save_data" /\ out.netcdf_no_unlimited
                             ELSE TRUE]

\* The dictionaries given to add_attributes.
AttrDicts ==
    UNION {{d \in [1..n -> [key : AttrKeys, value : {<<"m">>, <<"x">>}]] :
              \A i, j \in 1..n : d[i].key = d[j].key => i = j} : n \in 1..MaxAttrs}

InitAttributes ==
    /\ \E time \in BOOLEAN :
         cube = GriddedData_init(np_zeros(<<1>>), PyNone, PyNone, PyNone, PyNone,
                  IF time
                  THEN [MakeCube(<<1>>, FALSE, 0, <<0>>, <<>>, "none", <<>>)
                          EXCEPT !.hasTime = TRUE, !.dimNames = <<"time">>]
                  ELSE MakeCube(<<1>>, FALSE, 0, <<>>, <<>>, "none", <<>>))
    /\ lastCall = NoCall(cube)
    /\ calls = 0
    /\ dtInput = [fn |-> "new"]
    /\ dtOut = NoParse

AddAttributes ==
    /\ calls < MaxAttrCalls
    /\ \E attributes \in AttrDicts :
         /\ dtInput' = [fn |-> "add_attributes", attributes |-> attributes]
         /\ cube' = add_attributes(cube, attributes)
    /\ lastCall' = [NoCall(cube) EXCEPT !.called = TRUE, !.outcome = "return"]
    /\ calls' = calls + 1
    /\ UNCHANGED dtOut

RemoveAttribute ==
    /\ calls < MaxAttrCalls
    /\ \E key \in AttrKeys :
         /\ dtInput' = [fn |-> "remove_attribute", key |-> key]
         /\ cube' = remove_attribute(cube, key)
    /\ lastCall' = [NoCall(cube) EXCEPT !.called = TRUE, !.outcome = "return"]
    /\ calls' = calls + 1
    /\ UNCHANGED dtOut

AddHistory ==
    /\ calls < MaxAttrCalls
    /\ \E new_history \in Histories :
         \E r \in {add_history(cube, new_history)} :
            /\ dtInput' = [fn |-> "add_history", new_history |-> new_history]
            /\ cube' = r.obj
            /\ lastCall' = [NoCall(cube) EXCEPT !.called = TRUE,
                                                !.outcome = r.outcome, !.exc = r.exc]
    /\ calls' = calls + 1
    /\ UNCHANGED dtOut

SaveData ==
    /\ calls < MaxAttrCalls
    /\ dtInput' = [fn |-> "save_data"]
    /\ dtOut' = save_data(cube, dtOut)
    /\ lastCall' = [NoCall(cube) EXCEPT !.called = TRUE, !.outcome = "return"]
    /\ calls' = calls + 1
    /\ UNCHANGED cube

\* The object is saved as the only item of a GriddedDataList.
SaveDataList ==
    /\ calls < MaxAttrCalls
    /\ dtInput' = [fn |-> "GriddedDataList.save_data"]
    /\ dtOut' = GriddedDataList_save_data(<<cube>>, dtOut)
    /\ lastCall' = [NoCall(cube) EXCEPT !.called = TRUE, !.outcome = "return"]
    /\ calls' = calls + 1
    /\ UNCHANGED cube

NextAttributes ==
    \/ AddAttributes \/ RemoveAttribute \/ AddHistory \/ SaveData \/ SaveDataList
    \/ AddAuxCoord \/ RemoveCoord \/ AddDimCoord \/ Transpose

SpecAttributes == InitAttributes /\ [][NextAttributes]_vars

\* The keys recorded as local attributes.
LocalKeys(g) == {g.local_attributes[j] : j \in 1..Len(g.local_attributes)}

\* C22: attribute assignment having succeeded (no key the attributes
\* dictionary refuses was recorded), when remove_attribute(key) has returned
\* the key is neither in attributes nor in _local_attributes, and at any time
\* every key of _local_attributes, the local_keys of a save, is a key of
\* attributes.
C22_RemovedKeyAbsentEverywhere ==
    (dtInput.fn \in {"add_attributes", "remove_attribute", "add_history", "save_data",
                     "GriddedDataList.save_data"}
        /\ LocalKeys(lastCall.before) \cap ForbiddenKeys = {}
        /\ LocalKeys(cube) \cap ForbiddenKeys = {})
    => /\ dtInput.fn = "remove_attribute"
          => /\ dtInput.key \notin dict_keys(cube.attributes)
             /\ dtInput.key \notin LocalKeys(cube)
       /\ LocalKeys(cube) \subseteq dict_keys(cube.attributes)
       /\ dtInput.fn = "save_data"
          => LocalKeys([local_attributes |-> dtOut.save_args.local_keys])
                \subseteq dict_keys(cube.attributes)
====
